---------------------------- MODULE Spec2Model ----------------------------
(***************************************************************************)
(* Weather chat agents of naveenvivek/aimcpserver:                         *)
(*   GroqWeatherAgent       (groq_weather_agent.py)   rule-based classify  *)
(*   SmartGroqWeatherAgent  (smart_weather_agent.py)  engine-decided tools *)
(*   SimpleWeatherAgent     (simple_weather_agent.py) rule-based, no LLM   *)
(*                                                                         *)
(* Text is a sequence of strings.  A user utterance and every gazetteer    *)
(* key is spelled one character per element, so that Python's `in`         *)
(* (substring containment), lower() and title() are computed character by  *)
(* character.  The fixed parts of an f-string are one element each.        *)
(* Coordinates are integers counting 1/10000 of a degree.                  *)
(***************************************************************************)
EXTENDS Integers, Sequences, FiniteSets, TLC

(***************************************************************************)
(* str operations                                                          *)
(***************************************************************************)
UpperCase == <<"A","B","C","D","E","F","G","H","I","J","K","L","M",
               "N","O","P","Q","R","S","T","U","V","W","X","Y","Z">>
LowerCase == <<"a","b","c","d","e","f","g","h","i","j","k","l","m",
               "n","o","p","q","r","s","t","u","v","w","x","y","z">>

IsUpper(c) == \E i \in 1..26 : UpperCase[i] = c
IsLower(c) == \E i \in 1..26 : LowerCase[i] = c
IsCased(c) == IsUpper(c) \/ IsLower(c)
LowerChar(c) == IF IsUpper(c) THEN LowerCase[CHOOSE i \in 1..26 : UpperCase[i] = c] ELSE c
UpperChar(c) == IF IsLower(c) THEN UpperCase[CHOOSE i \in 1..26 : LowerCase[i] = c] ELSE c

\* str.lower()
lower(text) == [i \in 1..Len(text) |-> LowerChar(text[i])]

\* str.title(): a cased character is upper-cased when it follows an uncased
\* character (or starts the string) and lower-cased otherwise.
title(text) ==
  [i \in 1..Len(text) |->
     IF i = 1 \/ ~IsCased(text[i-1]) THEN UpperChar(text[i]) ELSE LowerChar(text[i])]

\* `key in text`: key occurs as a contiguous run of text.
Contains(text, key) ==
  \E i \in 1..(Len(text) - Len(key) + 1) : SubSeq(text, i, i + Len(key) - 1) = key

\* None, and the falsy result of a failed resolution.
None == << >>

(***************************************************************************)
(* dict literals: a key listed twice keeps the position of its first       *)
(* listing and the value of its last listing.  The dict is the sequence of *)
(* its items in iteration order.                                           *)
(***************************************************************************)
dict(literal) ==
  LET n      == Len(literal)
      firsts == {i \in 1..n : \A j \in 1..(i-1) : literal[j][1] # literal[i][1]}
      nth(k) == CHOOSE i \in firsts : Cardinality({j \in firsts : j < i}) = k - 1
      last(key) == CHOOSE i \in 1..n :
                     /\ literal[i][1] = key
                     /\ \A j \in (i+1)..n : literal[j][1] # key
  IN  [k \in 1..Cardinality(firsts) |->
         <<literal[nth(k)][1], literal[last(literal[nth(k)][1])][2]>>]

(***************************************************************************)
(* GroqWeatherAgent.__init__: the gazetteer, in the order of the source    *)
(***************************************************************************)
city_coords_literal ==
  <<
    <<<<"n","e","w"," ","y","o","r","k">>, <<407128, -740060>>>>,
    <<<<"n","y","c">>, <<407128, -740060>>>>,
    <<<<"l","o","s"," ","a","n","g","e","l","e","s">>, <<340522, -1182437>>>>,
    <<<<"l","a">>, <<340522, -1182437>>>>,
    <<<<"c","h","i","c","a","g","o">>, <<418781, -876298>>>>,
    <<<<"h","o","u","s","t","o","n">>, <<297604, -953698>>>>,
    <<<<"p","h","i","l","a","d","e","l","p","h","i","a">>, <<399526, -751652>>>>,
    <<<<"p","h","o","e","n","i","x">>, <<334484, -1120740>>>>,
    <<<<"s","a","n"," ","a","n","t","o","n","i","o">>, <<294241, -984936>>>>,
    <<<<"s","a","n"," ","d","i","e","g","o">>, <<327157, -1171611>>>>,
    <<<<"d","a","l","l","a","s">>, <<327767, -967970>>>>,
    <<<<"a","u","s","t","i","n">>, <<302672, -977431>>>>,
    <<<<"s","a","n"," ","j","o","s","e">>, <<373382, -1218863>>>>,
    <<<<"f","o","r","t"," ","w","o","r","t","h">>, <<327555, -973308>>>>,
    <<<<"c","o","l","u","m","b","u","s">>, <<399612, -829988>>>>,
    <<<<"c","h","a","r","l","o","t","t","e">>, <<352271, -808431>>>>,
    <<<<"i","n","d","i","a","n","a","p","o","l","i","s">>, <<397684, -861581>>>>,
    <<<<"s","a","n"," ","f","r","a","n","c","i","s","c","o">>, <<377749, -1224194>>>>,
    <<<<"s","e","a","t","t","l","e">>, <<476062, -1223321>>>>,
    <<<<"d","e","n","v","e","r">>, <<397392, -1049903>>>>,
    <<<<"w","a","s","h","i","n","g","t","o","n">>, <<389072, -770369>>>>,
    <<<<"w","a","s","h","i","n","g","t","o","n"," ","d","c">>, <<389072, -770369>>>>,
    <<<<"d","c">>, <<389072, -770369>>>>,
    <<<<"b","o","s","t","o","n">>, <<423601, -710589>>>>,
    <<<<"n","a","s","h","v","i","l","l","e">>, <<361627, -867816>>>>,
    <<<<"b","a","l","t","i","m","o","r","e">>, <<392904, -766122>>>>,
    <<<<"o","k","l","a","h","o","m","a"," ","c","i","t","y">>, <<354676, -975164>>>>,
    <<<<"p","o","r","t","l","a","n","d">>, <<455152, -1226784>>>>,
    <<<<"l","a","s"," ","v","e","g","a","s">>, <<361699, -1151398>>>>,
    <<<<"m","i","l","w","a","u","k","e","e">>, <<430389, -879065>>>>,
    <<<<"a","l","b","u","q","u","e","r","q","u","e">>, <<350844, -1066504>>>>,
    <<<<"t","u","c","s","o","n">>, <<322226, -1109747>>>>,
    <<<<"f","r","e","s","n","o">>, <<367378, -1197871>>>>,
    <<<<"s","a","c","r","a","m","e","n","t","o">>, <<385816, -1214944>>>>,
    <<<<"m","e","s","a">>, <<334152, -1118315>>>>,
    <<<<"k","a","n","s","a","s"," ","c","i","t","y">>, <<390997, -945786>>>>,
    <<<<"a","t","l","a","n","t","a">>, <<337490, -843880>>>>,
    <<<<"o","m","a","h","a">>, <<412565, -959345>>>>,
    <<<<"c","o","l","o","r","a","d","o"," ","s","p","r","i","n","g","s">>, <<388339, -1048214>>>>,
    <<<<"r","a","l","e","i","g","h">>, <<357796, -786382>>>>,
    <<<<"m","i","a","m","i">>, <<257617, -801918>>>>,
    <<<<"c","l","e","v","e","l","a","n","d">>, <<414993, -816944>>>>,
    <<<<"t","u","l","s","a">>, <<361540, -959928>>>>,
    <<<<"m","i","n","n","e","a","p","o","l","i","s">>, <<449778, -932650>>>>,
    <<<<"w","i","c","h","i","t","a">>, <<376872, -973301>>>>,
    <<<<"a","r","l","i","n","g","t","o","n">>, <<327357, -971081>>>>,
    <<<<"n","e","w"," ","o","r","l","e","a","n","s">>, <<299511, -900715>>>>,
    <<<<"b","a","k","e","r","s","f","i","e","l","d">>, <<353733, -1190187>>>>,
    <<<<"t","a","m","p","a">>, <<279506, -824572>>>>,
    <<<<"h","o","n","o","l","u","l","u">>, <<213099, -1578581>>>>,
    <<<<"a","n","a","h","e","i","m">>, <<338366, -1179143>>>>,
    <<<<"s","a","n","t","a"," ","a","n","a">>, <<337455, -1178677>>>>,
    <<<<"c","o","r","p","u","s"," ","c","h","r","i","s","t","i">>, <<278006, -973964>>>>,
    <<<<"r","i","v","e","r","s","i","d","e">>, <<339533, -1173961>>>>,
    <<<<"l","e","x","i","n","g","t","o","n">>, <<380406, -845037>>>>,
    <<<<"p","i","t","t","s","b","u","r","g","h">>, <<404406, -799959>>>>,
    <<<<"s","t","."," ","l","o","u","i","s">>, <<386270, -901994>>>>,
    <<<<"s","a","i","n","t"," ","l","o","u","i","s">>, <<386270, -901994>>>>,
    <<<<"c","i","n","c","i","n","n","a","t","i">>, <<391031, -845120>>>>,
    <<<<"a","n","c","h","o","r","a","g","e">>, <<612181, -1499003>>>>,
    <<<<"s","t","o","c","k","t","o","n">>, <<379577, -1212908>>>>,
    <<<<"t","o","l","e","d","o">>, <<416528, -835379>>>>,
    <<<<"s","t","."," ","p","a","u","l">>, <<449537, -930900>>>>,
    <<<<"s","a","i","n","t"," ","p","a","u","l">>, <<449537, -930900>>>>,
    <<<<"n","e","w","a","r","k">>, <<407357, -741724>>>>,
    <<<<"g","r","e","e","n","s","b","o","r","o">>, <<360726, -797920>>>>,
    <<<<"p","l","a","n","o">>, <<330198, -966989>>>>,
    <<<<"h","e","n","d","e","r","s","o","n">>, <<360395, -1149817>>>>,
    <<<<"l","i","n","c","o","l","n">>, <<408136, -967026>>>>,
    <<<<"b","u","f","f","a","l","o">>, <<428864, -788784>>>>,
    <<<<"j","e","r","s","e","y"," ","c","i","t","y">>, <<407178, -740431>>>>,
    <<<<"c","h","u","l","a"," ","v","i","s","t","a">>, <<326401, -1170842>>>>,
    <<<<"f","o","r","t"," ","w","a","y","n","e">>, <<410793, -851394>>>>,
    <<<<"o","r","l","a","n","d","o">>, <<285383, -813792>>>>,
    <<<<"s","t","."," ","p","e","t","e","r","s","b","u","r","g">>, <<277676, -826403>>>>,
    <<<<"s","a","i","n","t"," ","p","e","t","e","r","s","b","u","r","g">>, <<277676, -826403>>>>,
    <<<<"c","h","a","n","d","l","e","r">>, <<333062, -1118413>>>>,
    <<<<"l","a","r","e","d","o">>, <<275806, -994803>>>>,
    <<<<"n","o","r","f","o","l","k">>, <<369068, -762859>>>>,
    <<<<"d","u","r","h","a","m">>, <<359940, -788986>>>>,
    <<<<"m","a","d","i","s","o","n">>, <<430731, -894012>>>>,
    <<<<"l","u","b","b","o","c","k">>, <<335779, -1018552>>>>,
    <<<<"i","r","v","i","n","e">>, <<336846, -1178265>>>>,
    <<<<"w","i","n","s","t","o","n","-","s","a","l","e","m">>, <<360999, -802442>>>>,
    <<<<"g","l","e","n","d","a","l","e">>, <<335387, -1121860>>>>,
    <<<<"g","a","r","l","a","n","d">>, <<329126, -966389>>>>,
    <<<<"h","i","a","l","e","a","h">>, <<258576, -802781>>>>,
    <<<<"r","e","n","o">>, <<395296, -1198138>>>>,
    <<<<"c","h","e","s","a","p","e","a","k","e">>, <<367682, -762875>>>>,
    <<<<"g","i","l","b","e","r","t">>, <<333528, -1117890>>>>,
    <<<<"b","a","t","o","n"," ","r","o","u","g","e">>, <<304515, -911871>>>>,
    <<<<"i","r","v","i","n","g">>, <<328140, -969489>>>>,
    <<<<"s","c","o","t","t","s","d","a","l","e">>, <<334942, -1119261>>>>,
    <<<<"n","o","r","t","h"," ","l","a","s"," ","v","e","g","a","s">>, <<361989, -1151175>>>>,
    <<<<"f","r","e","m","o","n","t">>, <<375485, -1219886>>>>,
    <<<<"b","o","i","s","e">>, <<436150, -1162023>>>>,
    <<<<"r","i","c","h","m","o","n","d">>, <<375407, -774360>>>>,
    <<<<"s","a","n"," ","b","e","r","n","a","r","d","i","n","o">>, <<341083, -1172898>>>>,
    <<<<"b","i","r","m","i","n","g","h","a","m">>, <<335186, -868104>>>>,
    <<<<"s","p","o","k","a","n","e">>, <<476587, -1174260>>>>,
    <<<<"r","o","c","h","e","s","t","e","r">>, <<431566, -776088>>>>,
    <<<<"d","e","s"," ","m","o","i","n","e","s">>, <<415868, -936250>>>>,
    <<<<"m","o","d","e","s","t","o">>, <<376391, -1209969>>>>,
    <<<<"f","a","y","e","t","t","e","v","i","l","l","e">>, <<350527, -788784>>>>,
    <<<<"t","a","c","o","m","a">>, <<472529, -1224443>>>>,
    <<<<"o","x","n","a","r","d">>, <<341975, -1191771>>>>,
    <<<<"f","o","n","t","a","n","a">>, <<340922, -1174350>>>>,
    <<<<"c","o","l","u","m","b","u","s">>, <<324609, -849877>>>>,
    <<<<"m","o","n","t","g","o","m","e","r","y">>, <<323668, -863000>>>>,
    <<<<"m","o","r","e","n","o"," ","v","a","l","l","e","y">>, <<339425, -1172297>>>>,
    <<<<"s","h","r","e","v","e","p","o","r","t">>, <<325252, -937502>>>>,
    <<<<"a","u","r","o","r","a">>, <<397294, -1048319>>>>,
    <<<<"y","o","n","k","e","r","s">>, <<409312, -738988>>>>,
    <<<<"a","k","r","o","n">>, <<410814, -815190>>>>,
    <<<<"h","u","n","t","i","n","g","t","o","n"," ","b","e","a","c","h">>, <<337091, -1180067>>>>,
    <<<<"l","i","t","t","l","e"," ","r","o","c","k">>, <<347465, -922896>>>>,
    <<<<"a","u","g","u","s","t","a">>, <<334735, -820105>>>>,
    <<<<"a","m","a","r","i","l","l","o">>, <<352220, -1018313>>>>,
    <<<<"g","l","e","n","d","a","l","e">>, <<341425, -1182551>>>>,
    <<<<"m","o","b","i","l","e">>, <<306954, -880399>>>>,
    <<<<"g","r","a","n","d"," ","r","a","p","i","d","s">>, <<429634, -856681>>>>,
    <<<<"s","a","l","t"," ","l","a","k","e"," ","c","i","t","y">>, <<407608, -1118910>>>>,
    <<<<"t","a","l","l","a","h","a","s","s","e","e">>, <<304518, -842807>>>>,
    <<<<"h","u","n","t","s","v","i","l","l","e">>, <<347304, -865861>>>>,
    <<<<"g","r","a","n","d"," ","p","r","a","i","r","i","e">>, <<327460, -969978>>>>,
    <<<<"k","n","o","x","v","i","l","l","e">>, <<359606, -839207>>>>,
    <<<<"w","o","r","c","e","s","t","e","r">>, <<422626, -718023>>>>,
    <<<<"n","e","w","p","o","r","t"," ","n","e","w","s">>, <<370871, -764730>>>>,
    <<<<"b","r","o","w","n","s","v","i","l","l","e">>, <<259018, -974975>>>>,
    <<<<"o","v","e","r","l","a","n","d"," ","p","a","r","k">>, <<389822, -946708>>>>,
    <<<<"s","a","n","t","a"," ","c","l","a","r","i","t","a">>, <<343917, -1185426>>>>,
    <<<<"p","r","o","v","i","d","e","n","c","e">>, <<418240, -714128>>>>,
    <<<<"g","a","r","d","e","n"," ","g","r","o","v","e">>, <<337739, -1179414>>>>,
    <<<<"c","h","a","t","t","a","n","o","o","g","a">>, <<350456, -853097>>>>,
    <<<<"o","c","e","a","n","s","i","d","e">>, <<331959, -1173795>>>>,
    <<<<"j","a","c","k","s","o","n">>, <<322988, -901848>>>>,
    <<<<"f","o","r","t"," ","l","a","u","d","e","r","d","a","l","e">>, <<261224, -801373>>>>,
    <<<<"s","a","n","t","a"," ","r","o","s","a">>, <<384404, -1227144>>>>,
    <<<<"r","a","n","c","h","o"," ","c","u","c","a","m","o","n","g","a">>, <<341064, -1175931>>>>,
    <<<<"p","o","r","t"," ","s","t","."," ","l","u","c","i","e">>, <<272730, -803582>>>>,
    <<<<"t","e","m","p","e">>, <<334255, -1119400>>>>,
    <<<<"o","n","t","a","r","i","o">>, <<340633, -1176509>>>>,
    <<<<"v","a","n","c","o","u","v","e","r">>, <<456387, -1226615>>>>,
    <<<<"c","a","p","e"," ","c","o","r","a","l">>, <<265629, -819495>>>>,
    <<<<"s","i","o","u","x"," ","f","a","l","l","s">>, <<435446, -967311>>>>,
    <<<<"s","p","r","i","n","g","f","i","e","l","d">>, <<372153, -932982>>>>,
    <<<<"p","e","o","r","i","a">>, <<406936, -895890>>>>,
    <<<<"p","e","m","b","r","o","k","e"," ","p","i","n","e","s">>, <<260070, -802962>>>>,
    <<<<"e","l","k"," ","g","r","o","v","e">>, <<384088, -1213716>>>>,
    <<<<"s","a","l","e","m">>, <<449429, -1230351>>>>,
    <<<<"l","a","n","c","a","s","t","e","r">>, <<346868, -1181542>>>>,
    <<<<"c","o","r","o","n","a">>, <<338753, -1175664>>>>,
    <<<<"e","u","g","e","n","e">>, <<440521, -1230868>>>>,
    <<<<"p","a","l","m","d","a","l","e">>, <<345794, -1181165>>>>,
    <<<<"s","a","l","i","n","a","s">>, <<366777, -1216555>>>>,
    <<<<"s","p","r","i","n","g","f","i","e","l","d">>, <<397817, -896501>>>>,
    <<<<"p","a","s","a","d","e","n","a">>, <<341478, -1181445>>>>,
    <<<<"f","o","r","t"," ","c","o","l","l","i","n","s">>, <<405853, -1050844>>>>,
    <<<<"h","a","y","w","a","r","d">>, <<376688, -1220808>>>>,
    <<<<"p","o","m","o","n","a">>, <<340552, -1177500>>>>,
    <<<<"c","a","r","y">>, <<357915, -787811>>>>,
    <<<<"r","o","c","k","f","o","r","d">>, <<422711, -890940>>>>,
    <<<<"a","l","e","x","a","n","d","r","i","a">>, <<388048, -770469>>>>,
    <<<<"e","s","c","o","n","d","i","d","o">>, <<331192, -1170864>>>>,
    <<<<"m","c","k","i","n","n","e","y">>, <<331973, -966397>>>>,
    <<<<"k","a","n","s","a","s"," ","c","i","t","y">>, <<391142, -946275>>>>,
    <<<<"j","o","l","i","e","t">>, <<415250, -880817>>>>,
    <<<<"s","u","n","n","y","v","a","l","e">>, <<373688, -1220363>>>>
  >>

state_codes_literal ==
  <<
    <<<<"a","l","a","b","a","m","a">>, <<"A","L">>>>,
    <<<<"a","l","a","s","k","a">>, <<"A","K">>>>,
    <<<<"a","r","i","z","o","n","a">>, <<"A","Z">>>>,
    <<<<"a","r","k","a","n","s","a","s">>, <<"A","R">>>>,
    <<<<"c","a","l","i","f","o","r","n","i","a">>, <<"C","A">>>>,
    <<<<"c","a">>, <<"C","A">>>>,
    <<<<"c","o","l","o","r","a","d","o">>, <<"C","O">>>>,
    <<<<"c","o","n","n","e","c","t","i","c","u","t">>, <<"C","T">>>>,
    <<<<"d","e","l","a","w","a","r","e">>, <<"D","E">>>>,
    <<<<"f","l","o","r","i","d","a">>, <<"F","L">>>>,
    <<<<"g","e","o","r","g","i","a">>, <<"G","A">>>>,
    <<<<"h","a","w","a","i","i">>, <<"H","I">>>>,
    <<<<"i","d","a","h","o">>, <<"I","D">>>>,
    <<<<"i","l","l","i","n","o","i","s">>, <<"I","L">>>>,
    <<<<"i","n","d","i","a","n","a">>, <<"I","N">>>>,
    <<<<"i","o","w","a">>, <<"I","A">>>>,
    <<<<"k","a","n","s","a","s">>, <<"K","S">>>>,
    <<<<"k","e","n","t","u","c","k","y">>, <<"K","Y">>>>,
    <<<<"l","o","u","i","s","i","a","n","a">>, <<"L","A">>>>,
    <<<<"m","a","i","n","e">>, <<"M","E">>>>,
    <<<<"m","a","r","y","l","a","n","d">>, <<"M","D">>>>,
    <<<<"m","a","s","s","a","c","h","u","s","e","t","t","s">>, <<"M","A">>>>,
    <<<<"m","i","c","h","i","g","a","n">>, <<"M","I">>>>,
    <<<<"m","i","n","n","e","s","o","t","a">>, <<"M","N">>>>,
    <<<<"m","i","s","s","i","s","s","i","p","p","i">>, <<"M","S">>>>,
    <<<<"m","i","s","s","o","u","r","i">>, <<"M","O">>>>,
    <<<<"m","o","n","t","a","n","a">>, <<"M","T">>>>,
    <<<<"n","e","b","r","a","s","k","a">>, <<"N","E">>>>,
    <<<<"n","e","v","a","d","a">>, <<"N","V">>>>,
    <<<<"n","e","w"," ","h","a","m","p","s","h","i","r","e">>, <<"N","H">>>>,
    <<<<"n","e","w"," ","j","e","r","s","e","y">>, <<"N","J">>>>,
    <<<<"n","e","w"," ","m","e","x","i","c","o">>, <<"N","M">>>>,
    <<<<"n","e","w"," ","y","o","r","k">>, <<"N","Y">>>>,
    <<<<"n","o","r","t","h"," ","c","a","r","o","l","i","n","a">>, <<"N","C">>>>,
    <<<<"n","o","r","t","h"," ","d","a","k","o","t","a">>, <<"N","D">>>>,
    <<<<"o","h","i","o">>, <<"O","H">>>>,
    <<<<"o","k","l","a","h","o","m","a">>, <<"O","K">>>>,
    <<<<"o","r","e","g","o","n">>, <<"O","R">>>>,
    <<<<"p","e","n","n","s","y","l","v","a","n","i","a">>, <<"P","A">>>>,
    <<<<"r","h","o","d","e"," ","i","s","l","a","n","d">>, <<"R","I">>>>,
    <<<<"s","o","u","t","h"," ","c","a","r","o","l","i","n","a">>, <<"S","C">>>>,
    <<<<"s","o","u","t","h"," ","d","a","k","o","t","a">>, <<"S","D">>>>,
    <<<<"t","e","n","n","e","s","s","e","e">>, <<"T","N">>>>,
    <<<<"t","e","x","a","s">>, <<"T","X">>>>,
    <<<<"u","t","a","h">>, <<"U","T">>>>,
    <<<<"v","e","r","m","o","n","t">>, <<"V","T">>>>,
    <<<<"v","i","r","g","i","n","i","a">>, <<"V","A">>>>,
    <<<<"w","a","s","h","i","n","g","t","o","n">>, <<"W","A">>>>,
    <<<<"w","e","s","t"," ","v","i","r","g","i","n","i","a">>, <<"W","V">>>>,
    <<<<"w","i","s","c","o","n","s","i","n">>, <<"W","I">>>>,
    <<<<"w","y","o","m","i","n","g">>, <<"W","Y">>>>
  >>

city_coords == dict(city_coords_literal)
state_codes == dict(state_codes_literal)

(***************************************************************************)
(* GroqWeatherAgent: the rule-based classifier                             *)
(***************************************************************************)
\* First item of an ordered dict whose test holds (the `for ... return`
\* loops), 0 when the loop falls through.
FirstMatch(items, Test(_)) ==
  IF \E i \in 1..Len(items) : Test(items[i])
    THEN CHOOSE i \in 1..Len(items) :
           Test(items[i]) /\ \A j \in 1..(i-1) : ~Test(items[j])
    ELSE 0

\* Returns <<city.title(), coords>> or None.
extract_location_from_text(text) ==
  LET text_lower == lower(text)
      hit(item)  == Contains(text_lower, item[1])
      i          == FirstMatch(city_coords, hit)
  IN  IF i = 0 THEN None ELSE <<title(city_coords[i][1]), city_coords[i][2]>>

\* Returns the state code or None.  Each item is tested twice: its name,
\* then its lower-cased code, both as substrings of the lower-cased text.
extract_state_from_text(text) ==
  LET text_lower == lower(text)
      hit(item)  == \/ Contains(text_lower, item[1])
                    \/ Contains(text_lower, lower(item[2]))
      i          == FirstMatch(state_codes, hit)
  IN  IF i = 0 THEN None ELSE state_codes[i][2]

weather_keywords ==
  << <<"w","e","a","t","h","e","r">>,
     <<"t","e","m","p","e","r","a","t","u","r","e">>,
     <<"t","e","m","p">>,
     <<"f","o","r","e","c","a","s","t">>,
     <<"r","a","i","n">>,
     <<"s","n","o","w">>,
     <<"s","u","n","n","y">>,
     <<"c","l","o","u","d","y">>,
     <<"h","o","t">>,
     <<"c","o","l","d">>,
     <<"s","t","o","r","m">> >>

alert_keywords ==
  << <<"a","l","e","r","t">>,
     <<"w","a","r","n","i","n","g">>,
     <<"w","a","t","c","h">>,
     <<"a","d","v","i","s","o","r","y">>,
     <<"s","e","v","e","r","e">>,
     <<"e","m","e","r","g","e","n","c","y">>,
     <<"d","a","n","g","e","r">> >>

\* any(keyword in text for keyword in keywords)
AnyIn(keywords, text) == \E i \in 1..Len(keywords) : Contains(text, keywords[i])

NoIntent == [type |-> "None"]

\* A faulty variant of is_weather_query: a place is looked for without a weather keyword.
is_weather_query_any_place(text) ==
  LET text_lower  == lower(text)
      has_weather == AnyIn(weather_keywords, text_lower)
      has_alert   == AnyIn(alert_keywords, text_lower)
      state       == extract_state_from_text(text)
      location    == extract_location_from_text(text)
  IN  IF /\ \/ has_alert
            \/ has_weather /\ AnyIn(<<alert_keywords[1], alert_keywords[2]>>, text_lower)
         /\ state # None
        THEN [type |-> "alert", state |-> state]
      ELSE IF location # None
        THEN [type |-> "forecast", city |-> location[1], coords |-> location[2]]
      ELSE NoIntent

\* A faulty variant of is_weather_query: an alert query without a region is dropped.
is_weather_query_alert_only(text) ==
  LET text_lower  == lower(text)
      has_weather == AnyIn(weather_keywords, text_lower)
      has_alert   == AnyIn(alert_keywords, text_lower)
      state       == extract_state_from_text(text)
      location    == extract_location_from_text(text)
  IN  IF \/ has_alert
         \/ has_weather /\ AnyIn(<<alert_keywords[1], alert_keywords[2]>>, text_lower)
        THEN IF state # None THEN [type |-> "alert", state |-> state] ELSE NoIntent
      ELSE IF has_weather /\ location # None
        THEN [type |-> "forecast", city |-> location[1], coords |-> location[2]]
      ELSE NoIntent

is_weather_query(text) ==
  LET text_lower  == lower(text)
      has_weather == AnyIn(weather_keywords, text_lower)
      has_alert   == AnyIn(alert_keywords, text_lower)
      state       == extract_state_from_text(text)
      location    == extract_location_from_text(text)
  IN  IF /\ \/ has_alert
            \/ has_weather /\ AnyIn(<<alert_keywords[1], alert_keywords[2]>>, text_lower)
         /\ state # None
        THEN [type |-> "alert", state |-> state]
      ELSE IF has_weather /\ location # None
        THEN [type |-> "forecast", city |-> location[1], coords |-> location[2]]
      ELSE NoIntent

(***************************************************************************)
(* SimpleWeatherAgent.parse_simple_query                                   *)
(***************************************************************************)
\* The branches of the two if/elif chains, in order: <<names, result>>.
simple_alerts ==
  << << << <<"c","a","l","i","f","o","r","n","i","a">>, <<"c","a">> >>, <<"C","A">> >>,
     << << <<"t","e","x","a","s">>, <<"t","x">> >>, <<"T","X">> >>,
     << << <<"n","e","w"," ","y","o","r","k">>, <<"n","y">> >>, <<"N","Y">> >> >>

simple_forecasts ==
  << << << <<"s","a","c","r","a","m","e","n","t","o">> >>, <<385816, -1214944>> >>,
     << << <<"s","a","n"," ","f","r","a","n","c","i","s","c","o">> >>, <<377749, -1224194>> >>,
     << << <<"n","e","w"," ","y","o","r","k">> >>, <<407128, -740060>> >> >>

\* Returns <<query_type, params>>; <<"None", None>> is (None, None).
parse_simple_query(query) ==
  LET query_lower == lower(query)
      hit(branch) == AnyIn(branch[1], query_lower)
      a == IF AnyIn(<<alert_keywords[1], alert_keywords[2]>>, query_lower)
             THEN FirstMatch(simple_alerts, hit) ELSE 0
      f == IF AnyIn(<<weather_keywords[4], weather_keywords[1]>>, query_lower)
             THEN FirstMatch(simple_forecasts, hit) ELSE 0
  IN  IF a # 0 THEN <<"alerts", simple_alerts[a][2]>>
      ELSE IF f # 0 THEN <<"forecast", simple_forecasts[f][2]>>
      ELSE <<"None", None>>

(***************************************************************************)
(* Calls: a call returns a value or raises an exception.                   *)
(***************************************************************************)
Return(v) == [raised |-> FALSE, value |-> v, error |-> "-"]
Raise(e)  == [raised |-> TRUE, value |-> None, error |-> e]

\* try: result / except Exception as e: Handler(e)
Except(result, Handler(_)) == IF result.raised THEN Handler(result.error) ELSE result

(***************************************************************************)
(* The weather backend (weather_server.get_alerts / get_forecast) and the  *)
(* reasoning engine (Groq chat completions) are outside the repository:    *)
(* each call returns some text or raises.                                  *)
(***************************************************************************)
NoCall == [fn |-> "none"]

BackendOutcomes(call) ==
  { Return(IF call.fn = "get_alerts" THEN <<"No active alerts">>
                                     ELSE <<"Tonight: clear, low 51F">>),
    Raise("ConnectError") }

\* Tool invocations the engine may emit (tool_call.function.arguments is a
\* JSON string: wellformed or not, and the object it spells).
Args(v)   == [wellformed |-> TRUE, value |-> v]
BadArgs   == [wellformed |-> FALSE, value |-> [x |-> 0]]
TC_forecast ==
  [id |-> "call_1", name |-> "get_weather_forecast",
   arguments |-> Args([latitude |-> 385816, longitude |-> -1214944,
                       location_name |-> <<"Sacramento">>])]
TC_alerts ==
  [id |-> "call_1", name |-> "get_weather_alerts",
   arguments |-> Args([state_code |-> <<"CA">>, state_name |-> <<"California">>])]
TC_alerts2 ==
  [id |-> "call_2", name |-> "get_weather_alerts",
   arguments |-> Args([state_code |-> <<"TX">>, state_name |-> <<"Texas">>])]
TC_unknown ==
  [id |-> "call_1", name |-> "get_weather_radar",
   arguments |-> Args([state_code |-> <<"CA">>, state_name |-> <<"California">>])]
TC_badjson ==
  [id |-> "call_1", name |-> "get_weather_forecast", arguments |-> BadArgs]
TC_missing ==
  [id |-> "call_1", name |-> "get_weather_forecast",
   arguments |-> Args([latitude |-> 385816, location_name |-> <<"Sacramento">>])]
TC_range ==
  [id |-> "call_1", name |-> "get_weather_forecast",
   arguments |-> Args([latitude |-> 9990000, longitude |-> -1214944,
                       location_name |-> <<"Nowhere">>])]

ToolChoices(e) ==
  IF e \in {"long", "loop"} THEN { <<>> }
  ELSE { <<>>, <<TC_forecast>>, <<TC_alerts>>, <<TC_forecast, TC_alerts2>>,
         <<TC_unknown>>, <<TC_badjson>>, <<TC_missing>>, <<TC_range>>,
         <<TC_badjson, TC_alerts2>> }

\* A completion: the text and tool calls of choices[0].message, or a failure
\* (the request raises, or the response has no choices[0]).
Completion(content, calls) ==
  [ok |-> TRUE, content |-> content, tool_calls |-> calls, error |-> "-"]
Failure(e) ==
  [ok |-> FALSE, content |-> None, tool_calls |-> <<>>, error |-> e]

EngineOutcomes(msgs, e) ==
  { Completion(c, t) :
      c \in { <<"Happy to help!">>,
              <<"According to the data: ">> \o msgs[Len(msgs)].content },
      t \in ToolChoices(e) }
  \cup { Failure("APIConnectionError"), Failure("IndexError") }

(***************************************************************************)
(* The window of history sent to the engine                                *)
(***************************************************************************)
W == 10

\* A faulty variant of LastN: seq[:n], the oldest n instead of the latest.
FirstN(seq, n) == SubSeq(seq, 1, IF Len(seq) > n THEN n ELSE Len(seq))

\* seq[-n:]
LastN(seq, n) == SubSeq(seq, IF Len(seq) > n THEN Len(seq) - n + 1 ELSE 1, Len(seq))

Turn(role, content) == [role |-> role, content |-> content]

(***************************************************************************)
(* GroqWeatherAgent                                                        *)
(***************************************************************************)
\* The backend call get_weather_data awaits for query_info.
get_weather_data_call(query_info) ==
  IF query_info.type = "alert"
    THEN [fn |-> "get_alerts", state |-> query_info.state]
  ELSE IF query_info.type = "forecast"
    THEN [fn |-> "get_forecast", lat |-> query_info.coords[1], lng |-> query_info.coords[2]]
  ELSE NoCall

\* A faulty variant of get_weather_data_except: the handler lets the exception go on.
get_weather_data_reraise(e) == Raise(e)

get_weather_data_except(e) ==
  Return(<<"Sorry, I couldn't fetch the weather data: ", e>>)

\* A faulty variant of get_weather_data: the text of the backend is left out.
get_weather_data_heading_only(query_info, outcome) ==
  LET body ==
        IF query_info.type = "alert" THEN
          IF outcome.raised THEN outcome
          ELSE Return(<<"Weather alerts for ">> \o query_info.state \o <<":\n">>)
        ELSE IF query_info.type = "forecast" THEN
          IF outcome.raised THEN outcome
          ELSE Return(<<"Weather forecast for ">> \o query_info.city \o <<":\n">>)
        ELSE Return(<<"I couldn't process that weather request.">>)
  IN  Except(body, get_weather_data_except)

\* outcome: what the awaited backend call did.
get_weather_data(query_info, outcome) ==
  LET body ==
        IF query_info.type = "alert" THEN
          IF outcome.raised THEN outcome
          ELSE Return(<<"Weather alerts for ">> \o query_info.state \o <<":\n">>
                        \o outcome.value)
        ELSE IF query_info.type = "forecast" THEN
          IF outcome.raised THEN outcome
          ELSE Return(<<"Weather forecast for ">> \o query_info.city \o <<":\n">>
                        \o outcome.value)
        ELSE Return(<<"I couldn't process that weather request.">>)
  IN  Except(body, get_weather_data_except)

groq_system_message == <<"You are a helpful AI assistant with access to real-time US weather data. ...">>

\* chat_with_groq up to the completions.create call: the request, and
\* self.conversation_history as the method leaves it.
recent_history(history) == IF Len(history) > W THEN LastN(history, W) ELSE history

\* A faulty variant of chat_with_groq_request: the user Turn is appended on receipt.
chat_with_groq_request_appending(history, user_message, weather_data) ==
  LET user_content ==
        IF weather_data # None
          THEN user_message \o <<"\n\nCurrent weather data:\n">> \o weather_data
          ELSE user_message
  IN  [messages |-> <<Turn("system", groq_system_message)>>
                      \o recent_history(history)
                      \o <<Turn("user", user_content)>>,
       history  |-> Append(history, Turn("user", user_message))]

chat_with_groq_request(history, user_message, weather_data) ==
  LET user_content ==
        IF weather_data # None
          THEN user_message \o <<"\n\nCurrent weather data:\n">> \o weather_data
          ELSE user_message
  IN  [messages |-> <<Turn("system", groq_system_message)>>
                      \o recent_history(history)
                      \o <<Turn("user", user_content)>>,
       history  |-> history]

chat_with_groq_except(e) ==
  Return(<<"Sorry, I'm having trouble connecting to my AI brain right now: ", e>>)

\* A faulty variant of chat_with_groq_response: the two appends are swapped.
chat_with_groq_response_swapped(history, user_message, completion) ==
  LET body == IF completion.ok THEN Return(completion.content)
                               ELSE Raise(completion.error)
      result == Except(body, chat_with_groq_except)
  IN  [result  |-> result,
       history |-> IF completion.ok
                     THEN history \o <<Turn("assistant", completion.content),
                                       Turn("user", user_message)>>
                     ELSE history]

\* chat_with_groq from the completion on: the call's result and the history.
chat_with_groq_response(history, user_message, completion) ==
  LET body == IF completion.ok THEN Return(completion.content)
                               ELSE Raise(completion.error)
      result == Except(body, chat_with_groq_except)
  IN  [result  |-> result,
       history |-> IF completion.ok
                     THEN history \o <<Turn("user", user_message),
                                       Turn("assistant", completion.content)>>
                     ELSE history]

(***************************************************************************)
(* SmartGroqWeatherAgent                                                   *)
(***************************************************************************)
smart_system_message == <<"You are a helpful weather assistant with access to real-time US weather data. ...">>

\* A faulty variant of chat_with_tools_request: the user Turn is appended
\* before the window is cut, so the utterance is sent twice.
chat_with_tools_request_after_append(history, user_message) ==
  [messages |-> <<Turn("system", smart_system_message)>>
                  \o LastN(Append(history, Turn("user", user_message)), W)
                  \o <<Turn("user", user_message)>>,
   history  |-> history]

\* A faulty variant of chat_with_tools_request: the history itself is cut to the window.
chat_with_tools_request_trimming(history, user_message) ==
  [messages |-> <<Turn("system", smart_system_message)>>
                  \o (IF history # <<>> THEN LastN(history, W) ELSE <<>>)
                  \o <<Turn("user", user_message)>>,
   history  |-> LastN(history, W)]

chat_with_tools_request(history, user_message) ==
  [messages |-> <<Turn("system", smart_system_message)>>
                  \o (IF history # <<>> THEN LastN(history, W) ELSE <<>>)
                  \o <<Turn("user", user_message)>>,
   history  |-> history]

json_loads(arguments) ==
  IF arguments.wellformed THEN Return(arguments.value) ELSE Raise("JSONDecodeError")

\* The first key of `keys` that `arguments` lacks (arguments[key] raises
\* KeyError), 0 when it has them all.
MissingKey(arguments, keys) ==
  IF \A i \in 1..Len(keys) : keys[i] \in DOMAIN arguments THEN 0
  ELSE CHOOSE i \in 1..Len(keys) :
         /\ keys[i] \notin DOMAIN arguments
         /\ \A j \in 1..(i-1) : keys[j] \in DOMAIN arguments

forecast_keys == <<"latitude", "longitude", "location_name">>
alerts_keys   == <<"state_code", "state_name">>

\* The backend call call_weather_function awaits, NoCall when it ends before.
call_weather_function_call(function_name, arguments) ==
  IF function_name = "get_weather_forecast" /\ MissingKey(arguments, forecast_keys) = 0
    THEN [fn |-> "get_forecast", lat |-> arguments.latitude, lng |-> arguments.longitude]
  ELSE IF function_name = "get_weather_alerts" /\ MissingKey(arguments, alerts_keys) = 0
    THEN [fn |-> "get_alerts", state |-> arguments.state_code]
  ELSE NoCall

call_weather_function_except(e) == Return(<<"Error getting weather data: ", e>>)

\* The names self.tools declares.
declared_tools == {"get_weather_forecast", "get_weather_alerts"}

\* A faulty variant of call_weather_function: a name that is not declared is
\* raised to the caller.
call_weather_function_rejecting(function_name, arguments, outcome) ==
  IF function_name \notin declared_tools THEN Raise("UnknownFunction")
  ELSE
  LET body ==
        IF function_name = "get_weather_forecast" THEN
          IF MissingKey(arguments, forecast_keys) # 0
            THEN Raise(forecast_keys[MissingKey(arguments, forecast_keys)])
          ELSE IF outcome.raised THEN outcome
          ELSE Return(<<"Weather forecast for ">> \o arguments.location_name
                        \o <<":\n">> \o outcome.value)
        ELSE
          IF MissingKey(arguments, alerts_keys) # 0
            THEN Raise(alerts_keys[MissingKey(arguments, alerts_keys)])
          ELSE IF outcome.raised THEN outcome
          ELSE Return(<<"Weather alerts for ">> \o arguments.state_name \o <<" (">>
                        \o arguments.state_code \o <<"):\n">> \o outcome.value)
  IN  Except(body, call_weather_function_except)

call_weather_function(function_name, arguments, outcome) ==
  LET body ==
        IF function_name = "get_weather_forecast" THEN
          IF MissingKey(arguments, forecast_keys) # 0
            THEN Raise(forecast_keys[MissingKey(arguments, forecast_keys)])
          ELSE IF outcome.raised THEN outcome
          ELSE Return(<<"Weather forecast for ">> \o arguments.location_name
                        \o <<":\n">> \o outcome.value)
        ELSE IF function_name = "get_weather_alerts" THEN
          IF MissingKey(arguments, alerts_keys) # 0
            THEN Raise(alerts_keys[MissingKey(arguments, alerts_keys)])
          ELSE IF outcome.raised THEN outcome
          ELSE Return(<<"Weather alerts for ">> \o arguments.state_name \o <<" (">>
                        \o arguments.state_code \o <<"):\n">> \o outcome.value)
        ELSE Return(<<"Unknown weather function requested">>)
  IN  Except(body, call_weather_function_except)

\* A faulty variant of chat_with_tools_except: the handler lets the exception go on.
chat_with_tools_reraise(e) == Raise(e)

chat_with_tools_except(e) ==
  Return(<<"Sorry, I'm having trouble processing your request: ", e>>)

\* A faulty variant of chat_with_tools_record: the user Turn is left out.
chat_with_tools_record_reply_only(history, user_message, content) ==
  Append(history, Turn("assistant", content))

\* The end of chat_with_tools: content is returned and recorded.
chat_with_tools_record(history, user_message, content) ==
  history \o <<Turn("user", user_message), Turn("assistant", content)>>

(***************************************************************************)
(* SimpleWeatherAgent                                                      *)
(***************************************************************************)
process_query_call(parsed) ==
  IF parsed[1] = "alerts" THEN [fn |-> "get_alerts", state |-> parsed[2]]
  ELSE IF parsed[1] = "forecast"
    THEN [fn |-> "get_forecast", lat |-> parsed[2][1], lng |-> parsed[2][2]]
  ELSE NoCall

get_weather_alerts_except(e)   == Return(<<"Error getting alerts: ", e>>)
get_weather_forecast_except(e) == Return(<<"Error getting forecast: ", e>>)

process_query(parsed, outcome) ==
  IF parsed[1] = "alerts" THEN
    LET result == Except(outcome, get_weather_alerts_except)
    IN  IF result.raised THEN result
        ELSE Return(<<"Weather Alerts for ">> \o parsed[2] \o <<":\n\n">> \o result.value)
  ELSE IF parsed[1] = "forecast" THEN
    LET result == Except(outcome, get_weather_forecast_except)
    IN  IF result.raised THEN result
        ELSE Return(<<"Weather Forecast:\n\n">> \o result.value)
  ELSE Return(<<"I can help with: Weather alerts, Weather forecasts">>)

(***************************************************************************)
(* Utterances of the model                                                 *)
(***************************************************************************)
U_Hello ==  \* "Hello"
  <<"H","e","l","l","o">>
U_hello_from_Boston ==  \* "hello from Boston"
  <<"h","e","l","l","o"," ","f","r","o","m"," ","B","o","s","t","o","n">>
U_alerts_for_Texas ==  \* "alerts for Texas"
  <<"a","l","e","r","t","s"," ","f","o","r"," ","T","e","x","a","s">>
U_alerts_for_California ==  \* "alerts for California"
  <<"a","l","e","r","t","s"," ","f","o","r"," ","C","a","l","i","f","o","r","n","i","a">>
U_severe_weather_Texas ==  \* "severe weather Texas"
  <<"s","e","v","e","r","e"," ","w","e","a","t","h","e","r"," ","T","e","x","a","s">>
U_danger_Texas ==  \* "danger Texas"
  <<"d","a","n","g","e","r"," ","T","e","x","a","s">>
U_Weather_in_Sacramento ==  \* "Weather in Sacramento"
  <<"W","e","a","t","h","e","r"," ","i","n"," ","S","a","c","r","a","m","e","n","t","o">>
U_weather_in_Atlanta ==  \* "weather in Atlanta"
  <<"w","e","a","t","h","e","r"," ","i","n"," ","A","t","l","a","n","t","a">>
U_severe_weather_Boston ==  \* "severe weather Boston"
  <<"s","e","v","e","r","e"," ","w","e","a","t","h","e","r"," ","B","o","s","t","o","n">>
U_danger_Boston ==  \* "danger Boston"
  <<"d","a","n","g","e","r"," ","B","o","s","t","o","n">>
U_weather ==  \* "weather"
  <<"w","e","a","t","h","e","r">>
U_warning_weather_sacramento ==  \* "warning weather sacramento"
  <<"w","a","r","n","i","n","g"," ","w","e","a","t","h","e","r"," ","s","a","c","r","a","m","e","n","t","o">>
U_north_las_vegas_weather ==  \* "north las vegas weather"
  <<"n","o","r","t","h"," ","l","a","s"," ","v","e","g","a","s"," ","w","e","a","t","h","e","r">>
U_weather_in_columbus ==  \* "weather in columbus"
  <<"w","e","a","t","h","e","r"," ","i","n"," ","c","o","l","u","m","b","u","s">>
U_quit ==  \* "quit"
  <<"q","u","i","t">>
U_EXIT ==  \* "EXIT"
  <<"E","X","I","T">>
U_bye ==  \* "bye"
  <<"b","y","e">>
U_q ==  \* "q"
  <<"q">>
U_danger_west_virginia ==  \* "danger west virginia"
  <<"d","a","n","g","e","r"," ","w","e","s","t"," ","v","i","r","g","i","n","i","a">>
Utterances ==
  {U_Hello,
   U_hello_from_Boston,
   U_alerts_for_Texas,
   U_alerts_for_California,
   U_severe_weather_Texas,
   U_danger_Texas,
   U_Weather_in_Sacramento,
   U_weather_in_Atlanta,
   U_severe_weather_Boston,
   U_danger_Boston,
   U_weather,
   U_warning_weather_sacramento,
   U_north_las_vegas_weather,
   U_weather_in_columbus,
   U_danger_west_virginia,
   U_quit,
   U_EXIT,
   U_bye,
   U_q}

(***************************************************************************)
(* chat_loop: the line read, stripped, ends the session when it is one of  *)
(* the loop's quit words, is skipped when empty, and is otherwise passed   *)
(* to process_message / chat_with_tools / process_query.                   *)
(***************************************************************************)
Whitespace == {" ", "\t", "\n"}

\* str.strip()
strip(text) ==
  LET kept == {i \in 1..Len(text) : text[i] \notin Whitespace}
  IN  IF kept = {} THEN <<>>
      ELSE SubSeq(text, CHOOSE i \in kept : \A j \in kept : i <= j,
                        CHOOSE i \in kept : \A j \in kept : j <= i)

\* The words of `user_input.lower() in [...]`, per class.
quit_words(a) ==
  IF a = "simple" THEN {U_quit, lower(U_EXIT), U_bye}
  ELSE {U_quit, lower(U_EXIT), U_bye, U_q}

L_bye_padded == <<" ">> \o U_bye \o <<" ", " ">>
L_blank      == <<" ", " ">>

\* The lines input() may return, and what strip() and lower() make of each.
QuitLines  == {U_quit, U_EXIT, U_bye, U_q, L_bye_padded}
BlankLines == {L_blank, <<>>}
InputLines == Utterances \cup QuitLines \cup BlankLines
Stripped   == [line \in InputLines |-> strip(line)]
Lowered    == [line \in InputLines |-> lower(strip(line))]

(***************************************************************************)
(* Sessions.  A session is one agent object and the inputs it meets: a     *)
(* short session draws its utterances and the engine's tool calls from the *)
(* full sets, a long one (long enough to overflow the window) from few,    *)
(* and a session of the third kind also meets quit words and blank lines.  *)
(***************************************************************************)
MaxTurns  == 7
WideTurns == 2
LoopTurns == 1

CoreUtterances == {U_Hello, U_Weather_in_Sacramento}
LongUtterances == {U_Weather_in_Sacramento}

Limit(e)   == IF e = "long" THEN MaxTurns
              ELSE IF e = "loop" THEN LoopTurns
              ELSE WideTurns
Pool(a, e) == IF e = "long" THEN LongUtterances
              ELSE IF a = "smart" THEN CoreUtterances
              ELSE Utterances
Lines(e)   == IF e = "long" THEN LongUtterances
              ELSE IF e = "loop" THEN CoreUtterances \cup QuitLines \cup BlankLines
              ELSE Utterances \ QuitLines

\* What chat_loop does with the lines a session of class a meets: break,
\* continue, or pass the stripped line on.
Breaks(a, e)    == {line \in Lines(e) : Lowered[line] \in quit_words(a)}
Continues(a, e) == {line \in Lines(e) \ Breaks(a, e) : Stripped[line] = <<>>}
Passes(a, e)    == Lines(e) \ (Breaks(a, e) \cup Continues(a, e))

Agents == {"groq", "smart", "simple"}
Envs   == {"wide", "long", "loop"}
ChatLoop ==
  [a \in Agents, e \in Envs |->
     [break    |-> Breaks(a, e),
      continue |-> Continues(a, e),
      pass     |-> {Stripped[line] : line \in Passes(a, e)} \cap Pool(a, e)]]

\* The classifiers' results on the utterances of the model.
Classified == [u \in Utterances |-> is_weather_query(u)]
Parsed     == [u \in Utterances |-> parse_simple_query(u)]

NoMessage == [content |-> None, tool_calls |-> <<>>]

\* The record of the calls a turn makes to the backend and to the engine:
\* the call, and whether it is pending, returned or raised.
Called(call)   == [call |-> call, outcome |-> "pending"]
Answered(log, raised_) ==
  [log EXCEPT ![Len(log)].outcome = IF raised_ THEN "raised" ELSE "returned"]
\* A faulty variant of Completing: tools= is passed on every request.
CompletingWithTools(with_tools) ==
  [call |-> [tools |-> TRUE], outcome |-> "pending", content |-> None, tool_calls |-> 0]

\* completions.create with (the first pass of chat_with_tools) or without
\* tools=, and what it answered: the content and the number of tool calls of
\* choices[0].message.
Completing(with_tools) ==
  [call |-> [tools |-> with_tools], outcome |-> "pending", content |-> None,
   tool_calls |-> 0]
Replied(log, completion) ==
  [log EXCEPT ![Len(log)] =
     [@ EXCEPT !.outcome = IF completion.ok THEN "returned" ELSE "raised",
               !.content = completion.content,
               !.tool_calls = Len(completion.tool_calls)]]

VARIABLES
  agent,                 \* "groq", "smart" or "simple": the class of self
  env,                   \* "wide", "long" or "loop": the inputs of the session
  turns,                 \* utterances accepted so far
  pc,                    \* where the turn stands
  conversation_history,  \* self.conversation_history
  user_message,          \* the utterance of the turn
  weather_query,         \* process_message: is_weather_query's result
  parsed,                \* process_query: parse_simple_query's result
  weather_data,          \* process_message: get_weather_data's result
  messages,              \* the message list of the engine request
  assistant_message,     \* chat_with_tools: the first completion's message
  tool_results,          \* chat_with_tools: tool_results
  reply,                 \* what the turn returned
  raised,                \* the turn ended by an exception leaving it
  history_before,        \* conversation_history when the turn began
  backend_calls,         \* get_alerts / get_forecast calls made in the turn
  engine_calls,          \* completions.create calls made in the turn
  appended,              \* conversation_history.append calls so far
  user_input,            \* chat_loop: the line read, stripped
  responses              \* chat_loop: replies printed so far

\* Further agent objects of the process, for the sessions that run side by
\* side: the objects, the list objects their conversation_history fields
\* refer to, and the call each of them is in.
VARIABLES
  instances,             \* the agent objects: class and fields
  heap,                  \* the list objects, by reference
  frames,                \* per object: the method call in progress
  own                    \* per object: the Turns its own calls appended

Instances == <<instances, heap, frames, own>>

vars == <<agent, env, turns, pc, conversation_history, user_message, weather_query,
          parsed, weather_data, messages, assistant_message, tool_results, reply,
          raised, history_before, backend_calls, engine_calls, appended, user_input,
          responses, Instances>>

\* The state of an agent object after __init__, before the first line.
Constructed ==
  /\ turns = 0
  /\ pc = "AwaitingInput"
  /\ conversation_history = <<>>
  /\ user_message = None
  /\ weather_query = NoIntent
  /\ parsed = <<"None", None>>
  /\ weather_data = None
  /\ messages = <<>>
  /\ assistant_message = NoMessage
  /\ tool_results = <<>>
  /\ reply = None
  /\ raised = FALSE
  /\ history_before = <<>>
  /\ backend_calls = <<>>
  /\ engine_calls = <<>>
  /\ appended = 0
  /\ user_input = None
  /\ responses = 0

Init ==
  /\ agent \in Agents
  /\ env \in Envs
  /\ agent = "simple" => env # "long"
  /\ Constructed
  /\ instances = <<>>
  /\ heap = <<>>
  /\ frames = <<>>
  /\ own = <<>>

\* A faulty variant of Idle: a line is read while a turn is under way.
IdleAnytime == pc \notin {"Ended", "Interrupted"}

\* chat_loop stands at input(): no turn is under way.
Idle == pc \in {"AwaitingInput", "Responded"}

\* A turn begins: chat_loop read a line, u is what strip() left of it, and
\* it is neither a quit word nor empty.
BeginTurn(u) ==
  /\ Idle
  /\ turns < Limit(env)
  /\ u \in ChatLoop[agent, env].pass
  /\ user_input' = u
  /\ turns' = turns + 1
  /\ user_message' = u
  /\ history_before' = conversation_history
  /\ assistant_message' = NoMessage
  /\ tool_results' = <<>>
  /\ weather_data' = None
  /\ raised' = FALSE
  /\ UNCHANGED <<agent, env, appended, Instances>>

\* The turn ends: result is what the method returned or raised, and
\* chat_loop prints what it returned.
EndTurn(result, history, appends) ==
  /\ pc' = "Responded"
  /\ responses' = responses + (IF result.raised THEN 0 ELSE 1)
  /\ reply' = result.value
  /\ raised' = result.raised
  /\ conversation_history' = history
  /\ appended' = appended + appends

(***************************************************************************)
(* GroqWeatherAgent.process_message                                        *)
(***************************************************************************)
GroqProcessMessage ==
  \E u \in Utterances :
    /\ agent = "groq"
    /\ BeginTurn(u)
    /\ weather_query' = Classified[u]
    /\ IF Classified[u].type # "None"
         THEN /\ backend_calls' = <<Called(get_weather_data_call(Classified[u]))>>
              /\ pc' = "FetchingData"
              /\ messages' = <<>>
              /\ engine_calls' = <<>>
              /\ UNCHANGED conversation_history
         ELSE LET rq == chat_with_groq_request(conversation_history, u, None)
              IN  /\ backend_calls' = <<>>
                  /\ messages' = rq.messages
                  /\ conversation_history' = rq.history
                  /\ engine_calls' = <<Completing(FALSE)>>
                  /\ pc' = "Completing"
    /\ reply' = None
    /\ UNCHANGED <<parsed, responses>>

GroqBackendAnswers ==
  /\ agent = "groq"
  /\ pc = "FetchingData"
  /\ \E outcome \in BackendOutcomes(backend_calls[Len(backend_calls)].call) :
       LET data == get_weather_data(weather_query, outcome)
       IN  /\ backend_calls' = Answered(backend_calls, outcome.raised)
           /\ IF data.raised
                THEN /\ EndTurn(data, conversation_history, 0)
                     /\ UNCHANGED <<weather_data, messages, engine_calls>>
                ELSE LET rq == chat_with_groq_request(conversation_history,
                                                   user_message, data.value)
                  IN  /\ weather_data' = data.value
                      /\ messages' = rq.messages
                      /\ conversation_history' = rq.history
                      /\ engine_calls' = Append(engine_calls, Completing(FALSE))
                      /\ pc' = "Completing"
                      /\ UNCHANGED <<reply, raised, appended, responses>>
  /\ UNCHANGED <<Instances, user_input, agent, env, turns, user_message, weather_query, parsed,
                 assistant_message, tool_results, history_before>>

GroqEngineAnswers ==
  /\ agent = "groq"
  /\ pc = "Completing"
  /\ \E completion \in EngineOutcomes(messages, env) :
       LET r == chat_with_groq_response(conversation_history, user_message, completion)
       IN  /\ EndTurn(r.result, r.history, IF completion.ok THEN 2 ELSE 0)
           /\ engine_calls' = Replied(engine_calls, completion)
  /\ UNCHANGED <<Instances, user_input, agent, env, turns, user_message, weather_query, parsed, weather_data,
                 messages, assistant_message, tool_results, history_before,
                 backend_calls>>

(***************************************************************************)
(* SmartGroqWeatherAgent.chat_with_tools                                   *)
(***************************************************************************)
SmartChatWithTools ==
  \E u \in Utterances :
    /\ agent = "smart"
    /\ BeginTurn(u)
    /\ LET rq == chat_with_tools_request(conversation_history, u)
       IN  /\ messages' = rq.messages
           /\ conversation_history' = rq.history
    /\ engine_calls' = <<Completing(TRUE)>>
    /\ backend_calls' = <<>>
    /\ pc' = "FirstPass"
    /\ reply' = None
    /\ UNCHANGED <<weather_query, parsed, responses>>

SmartFirstPassAnswers ==
  /\ agent = "smart"
  /\ pc = "FirstPass"
  /\ \E completion \in EngineOutcomes(messages, env) :
       /\ engine_calls' = Replied(engine_calls, completion)
       /\ IF ~completion.ok
            THEN /\ EndTurn(chat_with_tools_except(completion.error),
                            conversation_history, 0)
                 /\ UNCHANGED assistant_message
            ELSE IF completion.tool_calls # <<>>
              THEN /\ assistant_message' = [content |-> completion.content,
                                            tool_calls |-> completion.tool_calls]
                   /\ pc' = "Tools"
                   /\ UNCHANGED <<reply, raised, conversation_history, appended, responses>>
              ELSE /\ EndTurn(Return(completion.content),
                              chat_with_tools_record(conversation_history,
                                                     user_message,
                                                     completion.content), 2)
                   /\ UNCHANGED assistant_message
  /\ UNCHANGED <<Instances, user_input, agent, env, turns, user_message, weather_query, parsed, weather_data,
                 messages, tool_results, history_before, backend_calls>>

\* The tool call the loop stands at, and its parsed arguments.
tool_call == assistant_message.tool_calls[Len(tool_results) + 1]
arguments == json_loads(tool_call.arguments)

\* A faulty variant of tool_result: every result carries the first call's id.
tool_result_first_id(call, content) ==
  [tool_call_id |-> assistant_message.tool_calls[1].id, role |-> "tool",
   content |-> content]

\* The entry tool_results.append adds for a tool call.
tool_result(call, content) ==
  [tool_call_id |-> call.id, role |-> "tool", content |-> content]

\* A faulty variant of ToolDone: the loop over the tool calls ends after the
\* first result.
ToolDoneAfterFirst(result) ==
  IF result.raised
    THEN /\ EndTurn(chat_with_tools_except(result.error), conversation_history, 0)
         /\ UNCHANGED <<tool_results, messages, engine_calls>>
    ELSE LET results == Append(tool_results, tool_result(tool_call, result.value))
         IN  /\ tool_results' = results
             /\ messages' = messages
                    \o <<[role |-> "assistant",
                          content |-> assistant_message.content,
                          tool_calls |-> assistant_message.tool_calls]>>
                    \o results
             /\ engine_calls' = Append(engine_calls, Completing(FALSE))
             /\ pc' = "SecondPass"
             /\ UNCHANGED <<reply, raised, conversation_history, appended, responses>>

\* call_weather_function returned (or raised) for the current tool call.
ToolDone(result) ==
  IF result.raised
    THEN /\ EndTurn(chat_with_tools_except(result.error), conversation_history, 0)
         /\ UNCHANGED <<tool_results, messages, engine_calls>>
    ELSE LET results == Append(tool_results, tool_result(tool_call, result.value))
         IN  /\ tool_results' = results
             /\ IF Len(results) = Len(assistant_message.tool_calls)
                  THEN /\ messages' = messages
                              \o <<[role |-> "assistant",
                                    content |-> assistant_message.content,
                                    tool_calls |-> assistant_message.tool_calls]>>
                              \o results
                       /\ engine_calls' = Append(engine_calls, Completing(FALSE))
                       /\ pc' = "SecondPass"
                  ELSE /\ pc' = "Tools"
                       /\ UNCHANGED <<messages, engine_calls>>
             /\ UNCHANGED <<reply, raised, conversation_history, appended, responses>>

SmartExecuteTool ==
  /\ agent = "smart"
  /\ pc = "Tools"
  /\ IF arguments.raised
       THEN /\ EndTurn(chat_with_tools_except(arguments.error), conversation_history, 0)
            /\ UNCHANGED <<tool_results, messages, engine_calls, backend_calls>>
       ELSE LET call == call_weather_function_call(tool_call.name, arguments.value)
            IN  IF call = NoCall
                  THEN /\ ToolDone(call_weather_function(tool_call.name, arguments.value,
                                                         Return(None)))
                       /\ UNCHANGED backend_calls
                  ELSE /\ backend_calls' = Append(backend_calls, Called(call))
                       /\ pc' = "FetchingData"
                       /\ UNCHANGED <<tool_results, messages, engine_calls, reply, raised,
                                      conversation_history, appended, responses>>
  /\ UNCHANGED <<Instances, user_input, agent, env, turns, user_message, weather_query, parsed, weather_data,
                 assistant_message, history_before>>

SmartBackendAnswers ==
  /\ agent = "smart"
  /\ pc = "FetchingData"
  /\ \E outcome \in BackendOutcomes(backend_calls[Len(backend_calls)].call) :
       /\ backend_calls' = Answered(backend_calls, outcome.raised)
       /\ ToolDone(call_weather_function(tool_call.name, arguments.value, outcome))
  /\ UNCHANGED <<Instances, user_input, agent, env, turns, user_message, weather_query, parsed, weather_data,
                 assistant_message, history_before>>

SmartSecondPassAnswers ==
  /\ agent = "smart"
  /\ pc = "SecondPass"
  /\ \E completion \in EngineOutcomes(messages, env) :
       /\ engine_calls' = Replied(engine_calls, completion)
       /\ IF ~completion.ok
            THEN EndTurn(chat_with_tools_except(completion.error),
                         conversation_history, 0)
            ELSE EndTurn(Return(completion.content),
                         chat_with_tools_record(conversation_history, user_message,
                                                completion.content), 2)
  /\ UNCHANGED <<Instances, user_input, agent, env, turns, user_message, weather_query, parsed, weather_data,
                 messages, assistant_message, tool_results, history_before,
                 backend_calls>>

(***************************************************************************)
(* SimpleWeatherAgent.process_query                                        *)
(***************************************************************************)
SimpleProcessQuery ==
  \E u \in Utterances :
    /\ agent = "simple"
    /\ BeginTurn(u)
    /\ parsed' = Parsed[u]
    /\ IF process_query_call(Parsed[u]) = NoCall
         THEN /\ backend_calls' = <<>>
              /\ pc' = "Responded"
              /\ reply' = process_query(Parsed[u], Return(None)).value
              /\ responses' = responses + 1
         ELSE /\ backend_calls' = <<Called(process_query_call(Parsed[u]))>>
              /\ pc' = "FetchingData"
              /\ reply' = None
              /\ UNCHANGED responses
    /\ messages' = <<>>
    /\ engine_calls' = <<>>
    /\ UNCHANGED <<conversation_history, weather_query>>

SimpleBackendAnswers ==
  /\ agent = "simple"
  /\ pc = "FetchingData"
  /\ \E outcome \in BackendOutcomes(backend_calls[Len(backend_calls)].call) :
       /\ backend_calls' = Answered(backend_calls, outcome.raised)
       /\ EndTurn(process_query(parsed, outcome), conversation_history, 0)
  /\ UNCHANGED <<Instances, user_input, agent, env, turns, user_message, weather_query, parsed, weather_data,
                 messages, assistant_message, tool_results, history_before,
                 engine_calls>>

(***************************************************************************)
(* chat_loop without a turn                                                *)
(***************************************************************************)
\* What a step of chat_loop that calls nothing leaves alone.
TurnState ==
  <<agent, env, turns, conversation_history, user_message, weather_query, parsed,
    weather_data, messages, assistant_message, tool_results, reply, raised,
    history_before, backend_calls, engine_calls, appended, responses, Instances>>

\* if user_input.lower() in [...]: break
ChatLoopQuits ==
  \E line \in ChatLoop[agent, env].break :
    /\ Idle
    /\ user_input' = Stripped[line]
    /\ pc' = "Ended"
    /\ UNCHANGED TurnState

\* if not user_input: continue
ChatLoopSkips ==
  \E line \in ChatLoop[agent, env].continue :
    /\ Idle
    /\ user_input' = Stripped[line]
    /\ UNCHANGED <<pc, TurnState>>

\* except KeyboardInterrupt: break.  The caller abandons the turn while it
\* waits for the backend or for the engine: the interrupt is no Exception,
\* so it passes the except clauses of the turn's methods and leaves them at
\* the awaited call; the loop's own clause ends the session.
Suspended == pc \in {"FetchingData", "Completing", "FirstPass", "SecondPass"}

ChatLoopInterrupted ==
  /\ Suspended
  /\ pc' = "Interrupted"
  /\ UNCHANGED <<user_input, TurnState>>

Next ==
  \/ ChatLoopQuits
  \/ ChatLoopSkips
  \/ ChatLoopInterrupted
  \/ GroqProcessMessage
  \/ GroqBackendAnswers
  \/ GroqEngineAnswers
  \/ SmartChatWithTools
  \/ SmartFirstPassAnswers
  \/ SmartExecuteTool
  \/ SmartBackendAnswers
  \/ SmartSecondPassAnswers
  \/ SimpleProcessQuery
  \/ SimpleBackendAnswers

Spec == Init /\ [][Next]_vars

\* The same with the scheduling the code has: a turn that can take a step
\* of its own takes it.  An awaited call goes on when the collaborator
\* answers; nothing in the agents ends the wait (no timeout= on Groq(...) or
\* completions.create, no asyncio.wait_for around get_alerts / get_forecast).
Scheduled == Spec /\ WF_vars(SmartExecuteTool)

(***************************************************************************)
(* Sessions side by side: several agent objects, each with the             *)
(* conversation_history its __init__ made, take turns in any order.  The   *)
(* utterances of these sessions need no weather lookup and the engine      *)
(* asks for no tool.                                                       *)
(***************************************************************************)
MaxSessions  == 2
SessionTurns == 2

Objects == 1..MaxSessions
ClassOf(self) == IF self % 2 = 1 THEN "groq" ELSE "smart"
UtteranceOf(self) ==
  <<U_Hello, U_hello_from_Boston, U_weather, U_danger_Boston>>[((self - 1) % 4) + 1]

\* A faulty variant of NewAgent: one list object, shared by every agent object.
NewAgentSharedList(class, fresh) == [class |-> class, conversation_history |-> 1]

\* __init__: self.conversation_history = [] binds the field to a list object
\* made by this call (fresh: a reference no other object holds).
NewAgent(class, fresh) == [class |-> class, conversation_history |-> fresh]

NoFrame == [pc |-> "AwaitingInput", turns |-> 0, user_message |-> None,
            messages |-> <<>>, reply |-> None]

\* self.conversation_history of an agent object.
HistoryOf(self) == heap[instances[self].conversation_history]

SessionEngineOutcomes(msgs) ==
  {c \in EngineOutcomes(msgs, "long") : c.error # "IndexError"}

SessionsInit ==
  /\ agent = "groq"
  /\ env = "wide"
  /\ Constructed
  /\ instances = [self \in Objects |-> NewAgent(ClassOf(self), self)]
  /\ heap = [ref \in Objects |-> <<>>]
  /\ frames = [self \in Objects |-> NoFrame]
  /\ own = [self \in Objects |-> <<>>]

Single == <<agent, env, turns, pc, conversation_history, user_message, weather_query,
            parsed, weather_data, messages, assistant_message, tool_results, reply,
            raised, history_before, backend_calls, engine_calls, appended, user_input,
            responses>>

\* process_message / chat_with_tools of one object, up to its completion
\* request.
SessionBegins ==
  \E self \in Objects :
    LET u  == UtteranceOf(self)
        rq == IF instances[self].class = "groq"
                THEN chat_with_groq_request(HistoryOf(self), u, None)
                ELSE chat_with_tools_request(HistoryOf(self), u)
    IN  /\ frames[self].pc \in {"AwaitingInput", "Responded"}
        /\ frames[self].turns < SessionTurns
        /\ instances[self].class = "groq" => Classified[u] = NoIntent
        /\ frames' = [frames EXCEPT ![self] =
                        [pc |-> "Completing", turns |-> @.turns + 1, user_message |-> u,
                         messages |-> rq.messages, reply |-> None]]
        /\ heap' = [heap EXCEPT ![instances[self].conversation_history] = rq.history]
        /\ UNCHANGED <<instances, own, Single>>

\* The completion of one object's call answers: the rest of chat_with_groq /
\* chat_with_tools.
SessionEngineAnswers ==
  \E self \in Objects :
    /\ frames[self].pc = "Completing"
    /\ \E completion \in SessionEngineOutcomes(frames[self].messages) :
         LET u == frames[self].user_message
             r == IF instances[self].class = "groq"
                    THEN chat_with_groq_response(HistoryOf(self), u, completion)
                  ELSE IF completion.ok
                    THEN [result  |-> Return(completion.content),
                          history |-> chat_with_tools_record(HistoryOf(self), u,
                                                             completion.content)]
                  ELSE [result  |-> chat_with_tools_except(completion.error),
                        history |-> HistoryOf(self)]
         IN  /\ frames' = [frames EXCEPT ![self].pc = "Responded",
                                         ![self].reply = r.result.value]
             /\ heap' = [heap EXCEPT ![instances[self].conversation_history] = r.history]
             /\ own' = [own EXCEPT ![self] =
                          IF completion.ok
                            THEN @ \o <<Turn("user", u),
                                        Turn("assistant", completion.content)>>
                            ELSE @]
    /\ UNCHANGED <<instances, Single>>

SessionsNext ==
  \/ SessionBegins
  \/ SessionEngineAnswers

Sessions == SessionsInit /\ [][SessionsNext]_vars


(***************************************************************************)
(* Properties                                                              *)
(***************************************************************************)
IsPrefix(s, t) == Len(s) <= Len(t) /\ SubSeq(t, 1, Len(s)) = s
Min(a, b) == IF a < b THEN a ELSE b

\* The texts the except clauses put in place of an exception.
EngineApologies ==
  { "Sorry, I'm having trouble connecting to my AI brain right now: ",
    "Sorry, I'm having trouble processing your request: " }
BackendApologies ==
  { "Sorry, I couldn't fetch the weather data: ", "Error getting weather data: ",
    "Error getting alerts: ", "Error getting forecast: " }

\* The turn was answered by chat_with_groq's / chat_with_tools' except clause.
Apologised == reply # None /\ reply[1] \in EngineApologies
\* A backend call of the turn raised; the last completion of the turn failed.
BackendFailed == \E i \in 1..Len(backend_calls) : backend_calls[i].outcome = "raised"
EngineFailed  == /\ engine_calls # <<>>
                 /\ engine_calls[Len(engine_calls)].outcome = "raised"
\* The turn ended with the engine's reply.
Completed == pc = "Responded" /\ ~raised /\ ~Apologised
InTurn    == pc \notin {"AwaitingInput", "Responded", "Ended", "Interrupted"}
\* The caller can pass the next utterance.
CanBegin  == ENABLED (GroqProcessMessage \/ SmartChatWithTools \/ SimpleProcessQuery)
Recorded  == <<Turn("user", user_message), Turn("assistant", reply)>>

(***************************************************************************)
(* C1.  As claimed: once an utterance is received its user Turn is in the  *)
(* history, before classification, fetch or completion and whatever        *)
(* happens later in the turn.                                              *)
(***************************************************************************)
C1_UserTurnAppendedOnReceipt ==
  (agent \in {"groq", "smart"} /\ user_message # None) =>
     /\ Len(conversation_history) > Len(history_before)
     /\ conversation_history[Len(history_before) + 1] = Turn("user", user_message)

\* C1 as amended: the user Turn is appended only when the last engine
\* completion of the turn has succeeded, together with and right before the
\* assistant Turn; until then the history is as the turn found it, and a
\* turn answered by an except clause (an engine completion failed) leaves
\* no Turn at all.
C1_UserTurnRecordedWithReply ==
  agent \in {"groq", "smart"} =>
     /\ InTurn => conversation_history = history_before
     /\ (pc = "Responded" /\ EngineFailed) => Apologised
     /\ pc = "Responded" =>
          IF raised \/ Apologised
            THEN conversation_history = history_before
            ELSE conversation_history = history_before \o Recorded

C1_Witness ==
  /\ agent = "groq"
  /\ pc = "Responded"
  /\ EngineFailed
  /\ Len(history_before) = 2
  /\ conversation_history = history_before

(***************************************************************************)
(* C2.  The part of the history in an engine request is its last W turns   *)
(* (all of it when it has at most W), oldest first.                        *)
(***************************************************************************)
InFlight == pc \in {"Completing", "FirstPass", "SecondPass"}
\* The request is: system message, view of the history, user message and,
\* on the second pass, the assistant message and the tool results.
View ==
  SubSeq(messages, 2,
         Len(messages) - (IF pc = "SecondPass" THEN 2 + Len(tool_results) ELSE 1))

C2_WindowIsRecentSuffix ==
  InFlight =>
     /\ Len(View) <= W
     /\ Len(View) = Min(W, Len(conversation_history))
     /\ View = SubSeq(conversation_history,
                      Len(conversation_history) - Len(View) + 1,
                      Len(conversation_history))

C2_Witness ==
  /\ agent = "groq"
  /\ pc = "Completing"
  /\ Len(conversation_history) = W + 2
  /\ Len(View) = W

(***************************************************************************)
(* C3.  The history is append-only: every step leaves the old history as a *)
(* prefix of the new one, its length is the number of appends made, and    *)
(* the steps that build a request leave it as it is.                       *)
(***************************************************************************)
C3_HistoryAppendOnly ==
  [][ /\ IsPrefix(conversation_history, conversation_history')
      /\ Len(conversation_history') = appended'
      /\ (pc' \in {"Completing", "FirstPass", "SecondPass"}
            => conversation_history' = conversation_history) ]_vars

C3_Witness ==
  /\ agent = "smart"
  /\ pc = "FirstPass"
  /\ Len(conversation_history) > W
  /\ Len(messages) = W + 2
  /\ appended = Len(conversation_history)

(***************************************************************************)
(* C4.  As claimed: a completed turn with exactly one tool invocation adds *)
(* three Turns: user, tool, assistant.                                     *)
(***************************************************************************)
OneInvocation ==
  \/ agent = "smart" /\ Len(assistant_message.tool_calls) = 1
  \/ agent = "groq" /\ weather_query.type # "None"

C4_ThreeTurns ==
  (OneInvocation /\ Completed) =>
     /\ Len(conversation_history) = Len(history_before) + 3
     /\ [i \in 1..3 |-> conversation_history[Len(history_before) + i].role]
          = <<"user", "tool", "assistant">>

\* C4 as amended: such a turn adds exactly two Turns, the user Turn and the
\* assistant Turn in that order; the tool result is part of the engine
\* request only (a tool message, or the tail of the user message) and no
\* tool Turn is ever in the history.
C4_TwoTurns ==
  (OneInvocation /\ Completed) =>
     /\ conversation_history = history_before \o Recorded
     /\ \A i \in 1..Len(conversation_history) :
          conversation_history[i].role \in {"user", "assistant"}
     /\ agent = "smart" =>
          /\ Len(tool_results) = 1
          /\ messages[Len(messages)] = tool_results[1]
     /\ agent = "groq" =>
          /\ weather_data # None
          /\ messages[Len(messages)].content =
               user_message \o <<"\n\nCurrent weather data:\n">> \o weather_data

C4_Witness ==
  /\ agent = "smart"
  /\ OneInvocation
  /\ Completed
  /\ Len(history_before) = 2
  /\ Len(conversation_history) = 4

(***************************************************************************)
(* C5.  As claimed: when a backend call of the turn raises, the turn       *)
(* responds with a reply that contains an apology or error text, and no    *)
(* exception leaves the turn.                                              *)
(***************************************************************************)
C5_ReplyCarriesApology ==
  (pc = "Responded" /\ BackendFailed) =>
     /\ ~raised
     /\ \E t \in BackendApologies \cup EngineApologies : Contains(reply, <<t>>)

\* C5 as amended: the exception is caught where the backend is called and
\* an error text stands for the result.  SimpleWeatherAgent's reply contains
\* that text; GroqWeatherAgent and SmartGroqWeatherAgent hand it to the
\* engine (in the user message, as the tool result) and reply with what the
\* engine returns, which need not contain it.  No exception leaves the turn,
\* the turn responds, and the next utterance can be passed.
C5_BackendFailureAbsorbed ==
  BackendFailed =>
     /\ ~raised
     /\ agent = "groq" /\ pc # "FetchingData" =>
          /\ weather_data = <<"Sorry, I couldn't fetch the weather data: ", "ConnectError">>
          /\ Contains(messages[Len(messages)].content, weather_data)
     /\ agent = "smart" /\ pc # "FetchingData" =>
          \E i \in 1..Len(tool_results) :
             /\ tool_results[i].content = <<"Error getting weather data: ", "ConnectError">>
             /\ Len(engine_calls) = 2 => \E j \in 1..Len(messages) : messages[j] = tool_results[i]
     /\ pc = "Responded" =>
          /\ reply # None
          /\ turns < Limit(env) => CanBegin
          /\ agent = "simple" =>
               \E t \in {"Error getting alerts: ", "Error getting forecast: "} :
                  Contains(reply, <<t, "ConnectError">>)
          /\ agent \in {"groq", "smart"} /\ ~Apologised =>
               conversation_history = history_before \o Recorded

C5_Witness ==
  /\ agent = "groq"
  /\ pc = "Responded"
  /\ BackendFailed
  /\ reply = <<"Happy to help!">>

(***************************************************************************)
(* C6.  When an engine completion fails, on the first or the second pass,  *)
(* the turn returns the apology of the except clause, no exception leaves  *)
(* it, the history is what it was before the turn, and the next utterance  *)
(* can be passed.                                                          *)
(***************************************************************************)
C6_EngineFailureAbsorbed ==
  (agent \in {"groq", "smart"} /\ EngineFailed) =>
     /\ pc \in {"Responded", "Ended"}
     /\ ~raised
     /\ Apologised
     /\ reply[2] \in {"APIConnectionError", "IndexError"}
     /\ conversation_history = history_before
     /\ (pc = "Responded" /\ turns < Limit(env)) => CanBegin

C6_Witness ==
  /\ agent = "smart"
  /\ EngineFailed
  /\ Len(engine_calls) = 2
  /\ Len(history_before) = 2
  /\ conversation_history = history_before


(***************************************************************************)
(* What an utterance says, for the claims about the classifiers.           *)
(***************************************************************************)
\* The item of a gazetteer the text names: the one with the longest key
\* among the keys the lower-cased text contains, 0 when it contains none.
Named(items, text) ==
  LET hits == {i \in 1..Len(items) : Contains(lower(text), items[i][1])}
  IN  IF hits = {} THEN 0
      ELSE CHOOSE i \in hits : \A j \in hits : Len(items[j][1]) <= Len(items[i][1])

Says ==
  [u \in Utterances |->
     [alert    |-> AnyIn(alert_keywords, lower(u)),
      weather  |-> AnyIn(weather_keywords, lower(u)),
      region   |-> Named(state_codes, u),
      place    |-> Named(city_coords, u),
      state    |-> extract_state_from_text(u),
      location |-> extract_location_from_text(u)]]

\* The same for parse_simple_query's own keywords and branches.
SimpleSays ==
  [u \in Utterances |->
     LET hit(branch) == AnyIn(branch[1], lower(u))
     IN  [alert   |-> AnyIn(<<alert_keywords[1], alert_keywords[2]>>, lower(u)),
          weather |-> AnyIn(<<weather_keywords[4], weather_keywords[1]>>, lower(u)),
          region  |-> FirstMatch(simple_alerts, hit),
          place   |-> FirstMatch(simple_forecasts, hit)]]

Classifying(a) == agent = a /\ user_message # None

(***************************************************************************)
(* C7.  As claimed: for an utterance with an alert keyword that names a    *)
(* region, is_weather_query returns the alert intent of that region.       *)
(***************************************************************************)
C7_AlertIntentOfNamedRegion ==
  (Classifying("groq") /\ Says[user_message].alert /\ Says[user_message].region # 0) =>
     weather_query = [type  |-> "alert",
                      state |-> state_codes[Says[user_message].region][2]]

(***************************************************************************)
(* C8.  As claimed: for an utterance with a weather keyword and no alert   *)
(* keyword that names a place, is_weather_query returns the forecast       *)
(* intent with the coordinates the gazetteer holds for that place.         *)
(***************************************************************************)
C8_ForecastIntentOfNamedPlace ==
  ( /\ Classifying("groq")
    /\ Says[user_message].weather
    /\ ~Says[user_message].alert
    /\ Says[user_message].place # 0 ) =>
     /\ weather_query.type = "forecast"
     /\ weather_query.coords = city_coords[Says[user_message].place][2]

(***************************************************************************)
(* C9.  For an utterance with neither an alert nor a weather keyword the   *)
(* classifier returns None and the turn answers without a backend call.    *)
(***************************************************************************)
C9_NoKeywordNoLookup ==
  ( /\ Classifying("groq") \/ Classifying("simple")
    /\ ~Says[user_message].alert
    /\ ~Says[user_message].weather ) =>
     /\ agent = "groq" => weather_query = NoIntent
     /\ agent = "simple" => parsed = <<"None", None>>
     /\ backend_calls = <<>>
     /\ ~raised
     /\ pc = "Responded" => reply # None

C9_Witness ==
  /\ agent = "groq"
  /\ pc = "Responded"
  /\ user_message = U_hello_from_Boston
  /\ Says[user_message].place # 0
  /\ weather_query = NoIntent
  /\ reply # None
  /\ backend_calls = <<>>

(***************************************************************************)
(* C10.  As claimed: an utterance with an alert keyword never yields a     *)
(* forecast intent, and when no region resolves the intent is None and no  *)
(* backend call is made.                                                   *)
(***************************************************************************)
C10_AlertNeverForecast ==
  /\ (Classifying("groq") /\ Says[user_message].alert) =>
        /\ weather_query.type # "forecast"
        /\ Says[user_message].state = None =>
             weather_query = NoIntent /\ backend_calls = <<>>
  /\ (Classifying("simple") /\ SimpleSays[user_message].alert) =>
        /\ parsed[1] # "forecast"
        /\ SimpleSays[user_message].region = 0 =>
             parsed = <<"None", None>> /\ backend_calls = <<>>

\* C10 as amended: an alert keyword with a region that resolves yields the
\* alert intent; when no region resolves the classifier goes on to the
\* forecast rule: with a weather keyword and a place that resolves the
\* result is the forecast intent and the backend is called for it, and
\* otherwise the intent is None and no backend call is made in the turn.
C10_AlertFallsThrough ==
  /\ (Classifying("groq") /\ Says[user_message].alert) =>
        LET says == Says[user_message]
        IN  IF says.state # None
              THEN weather_query = [type |-> "alert", state |-> says.state]
            ELSE IF says.weather /\ says.location # None
              THEN /\ weather_query = [type |-> "forecast", city |-> says.location[1],
                                       coords |-> says.location[2]]
                   /\ Len(backend_calls) = 1
                   /\ backend_calls[1].call = [fn  |-> "get_forecast",
                                               lat |-> says.location[2][1],
                                               lng |-> says.location[2][2]]
            ELSE weather_query = NoIntent /\ backend_calls = <<>>
  /\ (Classifying("simple") /\ SimpleSays[user_message].alert) =>
        LET says == SimpleSays[user_message]
        IN  IF says.region # 0
              THEN parsed = <<"alerts", simple_alerts[says.region][2]>>
            ELSE IF says.weather /\ says.place # 0
              THEN /\ parsed = <<"forecast", simple_forecasts[says.place][2]>>
                   /\ Len(backend_calls) = 1
                   /\ backend_calls[1].call.fn = "get_forecast"
            ELSE parsed = <<"None", None>> /\ backend_calls = <<>>

C10_Witness ==
  /\ agent = "groq"
  /\ pc = "FetchingData"
  /\ user_message = U_severe_weather_Boston
  /\ Says[user_message].alert
  /\ Says[user_message].state = None
  /\ weather_query.type = "forecast"


(***************************************************************************)
(* C12.  As claimed: when the backend calls of a turn returned, the reply  *)
(* of the turn contains the text of each of them.                          *)
(***************************************************************************)
\* The text the backend returns for a call.
BackendText(call) == (CHOOSE o \in BackendOutcomes(call) : ~o.raised).value
BackendReturned(i) == backend_calls[i].outcome = "returned"

C12_ReplyContainsBackendText ==
  (Completed /\ backend_calls # <<>>) =>
     \A i \in 1..Len(backend_calls) :
        BackendReturned(i) => Contains(reply, BackendText(backend_calls[i].call))

\* C12 as amended: SimpleWeatherAgent's reply contains the text.  In
\* GroqWeatherAgent the text is in weather_data and in the user message of
\* the engine request, in SmartGroqWeatherAgent in a tool result, which is
\* in the second engine request; the reply of these two is the content the
\* engine returns, with the text or without.
C12_BackendTextReachesEngine ==
  \A i \in 1..Len(backend_calls) :
     BackendReturned(i) =>
        LET T == BackendText(backend_calls[i].call)
        IN  /\ agent = "simple" =>
                 /\ pc \in {"Responded", "Ended"}
                 /\ Contains(reply, T)
            /\ agent = "groq" =>
                 /\ Contains(weather_data, T)
                 /\ Contains(messages[Len(messages)].content, T)
                 /\ messages[Len(messages)].role = "user"
            /\ agent = "smart" =>
                 \E j \in 1..Len(tool_results) :
                    /\ Contains(tool_results[j].content, T)
                    /\ Len(engine_calls) = 2 =>
                         \E k \in 1..Len(messages) : messages[k] = tool_results[j]
            /\ (agent \in {"groq", "smart"} /\ Completed) =>
                 conversation_history[Len(conversation_history)]
                   = Turn("assistant", reply)

C12_Witness ==
  /\ agent = "groq"
  /\ pc = "Responded"
  /\ Len(backend_calls) = 1
  /\ BackendReturned(1)
  /\ Contains(weather_data, <<"Tonight: clear, low 51F">>)
  /\ reply = <<"Happy to help!">>

(***************************************************************************)
(* C13.  As claimed: every backend call of a turn has validated            *)
(* parameters: get_forecast a latitude in [-90, 90] and a longitude in     *)
(* [-180, 180], get_alerts a region code of the gazetteer.                 *)
(***************************************************************************)
RegionCodes == {state_codes[i][2] : i \in 1..Len(state_codes)}

C13_BackendCallsValidated ==
  \A i \in 1..Len(backend_calls) :
     LET call == backend_calls[i].call
     IN  /\ call.fn = "get_forecast" =>
              /\ call.lat \in -900000..900000
              /\ call.lng \in -1800000..1800000
         /\ call.fn = "get_alerts" => call.state \in RegionCodes

(***************************************************************************)
(* C14.  As claimed: in every chat_loop a line that is, stripped and in    *)
(* lower case, one of quit, exit, bye, q ends the session, and it is not   *)
(* passed on as the utterance of a turn.                                   *)
(***************************************************************************)
C14_QuitWordEndsSession ==
  (user_input # None /\ lower(user_input) \in {U_quit, lower(U_EXIT), U_bye, U_q}) =>
     /\ pc = "Ended"
     /\ user_message # user_input


(***************************************************************************)
(* C16.  After a turn that the engine's reply ended (no except clause      *)
(* answered it) the history ends with the user Turn of the raw utterance   *)
(* and the assistant Turn of the reply, and the reply is the content of    *)
(* the last completion: the second when the first asked for tools.         *)
(***************************************************************************)
ToolCalls == assistant_message.tool_calls
LastCompletion == engine_calls[Len(engine_calls)]

C16_HistoryEndsWithReply ==
  (agent \in {"groq", "smart"} /\ Completed) =>
     LET n == Len(conversation_history)
     IN  /\ n >= 2
         /\ conversation_history[n] = Turn("assistant", reply)
         /\ conversation_history[n - 1] = Turn("user", user_message)
         /\ LastCompletion.outcome = "returned"
         /\ reply = LastCompletion.content
         /\ Len(engine_calls) = IF agent = "smart" /\ ToolCalls # <<>> THEN 2 ELSE 1

C16_Witness ==
  /\ agent = "groq"
  /\ Completed
  /\ weather_data # None
  /\ messages[Len(messages)].content # user_message
  /\ Len(history_before) = 2
  /\ conversation_history[4] = Turn("assistant", reply)

(***************************************************************************)
(* C17.  As claimed, of the turns in which every tool call got its result: *)
(* a turn of chat_with_tools whose first completion returned tool calls    *)
(* has a second completion, and the text of the second completion is its   *)
(* reply; one whose first completion returned no tool call replies with    *)
(* the first text after that one completion.                               *)
(***************************************************************************)
C17_ReplyIsSecondCompletion ==
  (agent = "smart" /\ pc = "Responded" /\ engine_calls[1].outcome = "returned") =>
     IF engine_calls[1].tool_calls > 0
       THEN Len(tool_results) = Len(ToolCalls) =>
              /\ Len(engine_calls) = 2
              /\ reply = engine_calls[2].content
       ELSE /\ Len(engine_calls) = 1
            /\ reply = engine_calls[1].content

\* C17 as amended: the second completion is requested only after every tool
\* call has its result in the message list, and none is requested while the
\* calls are executed.  The reply is the text of the second completion when
\* that completion succeeds; when it fails, or when the arguments of a tool
\* call do not parse (the turn then ends with no second completion), the
\* reply is the apology of the except clause.  Without tool calls the reply
\* is the first text, after exactly one completion.
C17_SecondPassAfterTools ==
  agent = "smart" =>
     /\ pc \in {"Tools", "FetchingData"} =>
          /\ Len(engine_calls) = 1
          /\ Len(tool_results) < Len(ToolCalls)
     /\ Len(engine_calls) = 2 =>
          /\ ToolCalls # <<>>
          /\ Len(tool_results) = Len(ToolCalls)
          /\ SubSeq(messages, Len(messages) - Len(tool_results) + 1, Len(messages))
               = tool_results
     /\ (pc = "Responded" /\ engine_calls[1].outcome = "returned") =>
          IF engine_calls[1].tool_calls = 0
            THEN Len(engine_calls) = 1 /\ reply = engine_calls[1].content
          ELSE IF Len(engine_calls) = 2 /\ engine_calls[2].outcome = "returned"
            THEN reply = engine_calls[2].content
          ELSE /\ Apologised
               /\ \/ Len(engine_calls) = 2 /\ engine_calls[2].outcome = "raised"
                  \/ /\ Len(engine_calls) = 1
                     /\ reply[2] = "JSONDecodeError"
                     /\ Len(tool_results) < Len(ToolCalls)

C17_Witness ==
  /\ agent = "smart"
  /\ pc = "Responded"
  /\ Len(ToolCalls) = 2
  /\ Len(tool_results) = 2
  /\ Len(engine_calls) = 2
  /\ engine_calls[2].outcome = "returned"
  /\ reply = engine_calls[2].content
  /\ reply # engine_calls[1].content

(***************************************************************************)
(* C18.  A turn makes at most two completions (one in GroqWeatherAgent),   *)
(* the second is requested without tools=, and the tool calls a second     *)
(* completion returns are not executed: the tool results and backend calls *)
(* of the turn are those of the first completion's tool calls.             *)
(***************************************************************************)
C18_OneRoundOfTools ==
  /\ Len(engine_calls) <= 2
  /\ agent = "simple" => engine_calls = <<>>
  /\ agent = "groq" =>
       /\ Len(engine_calls) <= 1
       /\ \A i \in 1..Len(engine_calls) : ~engine_calls[i].call.tools
       /\ Len(backend_calls) <= 1
  /\ (agent = "smart" /\ engine_calls # <<>>) =>
       /\ engine_calls[1].call.tools
       /\ Len(tool_results) <= Len(ToolCalls)
       /\ Len(backend_calls) <= Len(ToolCalls)
       /\ Len(engine_calls) = 2 =>
            /\ ~engine_calls[2].call.tools
            /\ engine_calls[1].tool_calls = Len(ToolCalls)
            /\ Len(tool_results) = Len(ToolCalls)
            /\ engine_calls[2].outcome # "pending" => pc \in {"Responded", "Ended"}

C18_Witness ==
  /\ agent = "smart"
  /\ pc = "Responded"
  /\ Len(engine_calls) = 2
  /\ engine_calls[2].outcome = "returned"
  /\ engine_calls[2].tool_calls = 2
  /\ Len(ToolCalls) = 1
  /\ Len(tool_results) = 1
  /\ Len(backend_calls) = 1

(***************************************************************************)
(* C19.  As claimed: in a turn with several tool calls every one of them   *)
(* gets a result, a failing one an error text, and the turn goes on to the *)
(* second completion with as many results as calls.                        *)
(***************************************************************************)
C19_EveryInvocationAttempted ==
  (agent = "smart" /\ Len(ToolCalls) >= 2 /\ pc \in {"SecondPass", "Responded"}) =>
     /\ Len(tool_results) = Len(ToolCalls)
     /\ Len(engine_calls) = 2

(***************************************************************************)
(* C20.  Each tool result carries the id of the tool call it answers and   *)
(* is the result of that call; in the second request the results follow    *)
(* the assistant message with the tool calls, in the order of the calls;   *)
(* and the reply of the turn comes after them.                             *)
(***************************************************************************)
\* The results call_weather_function can give for a tool call.
ResultsOf(call) ==
  LET args == json_loads(call.arguments)
  IN  IF args.raised THEN {}
      ELSE { call_weather_function(call.name, args.value, outcome).value :
               outcome \in BackendOutcomes(
                             call_weather_function_call(call.name, args.value)) }

C20_ToolResultsCorrelated ==
  agent = "smart" =>
     /\ \A i \in 1..Len(tool_results) :
          /\ i <= Len(ToolCalls)
          /\ tool_results[i].role = "tool"
          /\ tool_results[i].tool_call_id = ToolCalls[i].id
          /\ tool_results[i].content \in ResultsOf(ToolCalls[i])
     /\ Len(engine_calls) = 2 =>
          LET n == Len(messages)
              k == Len(tool_results)
          IN  /\ messages[n - k] = [role |-> "assistant",
                                    content |-> assistant_message.content,
                                    tool_calls |-> ToolCalls]
              /\ SubSeq(messages, n - k + 1, n) = tool_results
     /\ InTurn => reply = None
     /\ (Completed /\ tool_results # <<>>) =>
          /\ Len(engine_calls) = 2
          /\ conversation_history[Len(conversation_history)] = Turn("assistant", reply)

C20_Witness ==
  /\ agent = "smart"
  /\ pc = "SecondPass"
  /\ Len(tool_results) = 2
  /\ tool_results[1].tool_call_id = "call_1"
  /\ tool_results[2].tool_call_id = "call_2"
  /\ tool_results[1].content[1] = "Error getting weather data: "
  /\ reply = None


(***************************************************************************)
(* C15.  While the sessions take their steps in any order, the history of  *)
(* each agent object holds the Turns its own calls appended and no other,  *)
(* the window of a request is cut from that history, and a step of one     *)
(* object leaves the history and the request of every other object as      *)
(* they were.                                                              *)
(***************************************************************************)
C15_SessionsIndependent ==
  [][ \A self \in Objects :
        /\ HistoryOf(self)' = own'[self]
        /\ \A i \in 1..Len(HistoryOf(self)') :
             HistoryOf(self)'[i].role = "user" =>
               HistoryOf(self)'[i].content = UtteranceOf(self)
        /\ frames'[self].pc = "Completing" =>
             SubSeq(frames'[self].messages, 2, Len(frames'[self].messages) - 1)
               = LastN(own'[self], W)
        /\ frames'[self] = frames[self] =>
             /\ HistoryOf(self)' = HistoryOf(self)
             /\ own'[self] = own[self] ]_vars

C15_Witness ==
  /\ instances # <<>>
  /\ frames[1].pc = "Completing"
  /\ frames[2].pc = "Completing"
  /\ frames[1].turns = 2
  /\ frames[2].turns = 2
  /\ Len(HistoryOf(1)) = 2
  /\ Len(HistoryOf(2)) = 2
  /\ HistoryOf(1)[1].content = U_Hello
  /\ HistoryOf(2)[1].content = U_hello_from_Boston

(***************************************************************************)
(* C21.  A turn abandoned while it waits for the backend or for the engine *)
(* leaves the history as the turn found it: no Turn of the abandoned turn  *)
(* is in it (no user Turn, no tool Turn without a closing assistant Turn,  *)
(* no reply made from nothing), no append was made, nothing was returned   *)
(* or printed for it, and the history still ends with an assistant Turn.   *)
(***************************************************************************)
C21_AbandonedTurnAppendsNothing ==
  (pc = "Interrupted" /\ agent \in {"groq", "smart"}) =>
     /\ conversation_history = history_before
     /\ appended = Len(history_before)
     /\ \A i \in 1..Len(conversation_history) :
          conversation_history[i].role \in {"user", "assistant"}
     /\ conversation_history # <<>> =>
          conversation_history[Len(conversation_history)].role = "assistant"
     /\ reply = None
     /\ responses = turns - 1

\* Abandoned after a tool result was produced, in a session with history.
C21_Witness ==
  /\ agent = "smart"
  /\ pc = "Interrupted"
  /\ tool_results # <<>>
  /\ Len(engine_calls) = 2
  /\ history_before # <<>>
  /\ conversation_history = history_before

(***************************************************************************)
(* C22.  As claimed: every external call of a turn is bounded, so a turn   *)
(* that waits for the backend or for the engine goes on even when the      *)
(* collaborator never answers, and every accepted utterance reaches        *)
(* Responded (unless the caller abandons the turn).                        *)
(***************************************************************************)
C22_EveryCallBounded ==
  InTurn ~> (pc \in {"Responded", "Interrupted"})

(***************************************************************************)
(* C23.  Turns of a session do not interleave: a line is accepted only     *)
(* when no turn is under way and every line accepted before has had its    *)
(* reply; the utterance of the turn changes only then; a reply is printed  *)
(* only by the step that brings the turn to Responded, one at a time; so   *)
(* at Responded every accepted line has had exactly one reply and during   *)
(* a turn every line but the current one.                                  *)
(***************************************************************************)
C23_TurnsSequential ==
  [][ /\ turns' # turns =>
           /\ pc \in {"AwaitingInput", "Responded"}
           /\ responses = turns
           /\ turns' = turns + 1
      /\ user_message' # user_message => turns' = turns + 1
      /\ responses' # responses =>
           /\ responses' = responses + 1
           /\ pc' = "Responded"
      /\ pc' = "Responded" => responses' = turns'
      /\ pc' \in {"FetchingData", "Completing", "FirstPass", "Tools", "SecondPass"}
           => responses' = turns' - 1 ]_vars

C23_Witness ==
  /\ agent = "smart"
  /\ pc = "Responded"
  /\ turns = 2
  /\ responses = 2
  /\ tool_results # <<>>
  /\ Len(engine_calls) = 2

(***************************************************************************)
(* C24.  As claimed: of the gazetteer keys the utterance contains, the     *)
(* resolvers return the entry of the longest one: the place resolver its   *)
(* title-cased name and coordinates (None when no key occurs), the region  *)
(* resolver its code.                                                      *)
(***************************************************************************)
\* Whether the utterance contains several keys of a gazetteer.
KeysIn(items, text) == {i \in 1..Len(items) : Contains(lower(text), items[i][1])}
Several ==
  [u \in Utterances |->
     [places  |-> Cardinality(KeysIn(city_coords, u)) > 1,
      regions |-> Cardinality(KeysIn(state_codes, u)) > 1]]

C24_LongestKeyWins ==
  Classifying("groq") =>
     LET said == Says[user_message]
     IN  /\ Several[user_message].places =>
              said.location = <<title(city_coords[said.place][1]),
                                city_coords[said.place][2]>>
         /\ Several[user_message].regions =>
              said.state = state_codes[said.region][2]

(***************************************************************************)
(* C25.  As claimed: the gazetteer holds one coordinate pair per place     *)
(* name, so the coordinates a forecast intent carries for a place are the  *)
(* only ones the source table lists under that name; a later listing never *)
(* takes the place of an earlier one.                                      *)
(***************************************************************************)
\* The coordinate pairs the source table lists under the name the resolver
\* returns for the utterance.
Listed ==
  [u \in Utterances |->
     LET location == extract_location_from_text(u)
     IN  IF location = None THEN {}
         ELSE {city_coords_literal[i][2] :
                 i \in {j \in 1..Len(city_coords_literal) :
                          title(city_coords_literal[j][1]) = location[1]}}]

C25_OneCanonicalPair ==
  (Classifying("groq") /\ weather_query.type = "forecast") =>
     Listed[user_message] = {weather_query.coords}

(***************************************************************************)
(* C26.  As claimed: a tool invocation whose name is not declared is       *)
(* rejected before execution: no backend call is made for it, no tool      *)
(* result is produced for it, and the turn ends with the apology of an     *)
(* engine error.                                                           *)
(***************************************************************************)
Unknown(i)  == ToolCalls[i].name \notin declared_tools
DeclaredCalls == Cardinality({i \in 1..Len(ToolCalls) : ~Unknown(i)})

C26_UnknownToolRejected ==
  agent = "smart" =>
     /\ Len(backend_calls) <= DeclaredCalls
     /\ \A i \in 1..Len(ToolCalls) : Unknown(i) =>
          /\ Len(tool_results) < i
          /\ pc = "Responded" => Apologised

\* C26 as amended: no backend call is made for an invocation with an
\* undeclared name, but it is not rejected: call_weather_function answers it
\* with a fixed text, which becomes the tool result under the invocation's
\* id and goes to the second completion like any other; a turn whose
\* invocations are all of this kind (with arguments that parse) reaches the
\* second completion, and when that succeeds its text is the reply and is
\* recorded.
C26_UnknownToolAnswered ==
  agent = "smart" =>
     /\ Len(backend_calls) <= DeclaredCalls
     /\ \A i \in 1..Len(tool_results) : Unknown(i) =>
          /\ tool_results[i] = [tool_call_id |-> ToolCalls[i].id, role |-> "tool",
                                content |-> <<"Unknown weather function requested">>]
          /\ Len(engine_calls) = 2 =>
               \E j \in 1..Len(messages) : messages[j] = tool_results[i]
     /\ ( /\ pc \in {"SecondPass", "Responded"}
          /\ ToolCalls # <<>>
          /\ \A i \in 1..Len(ToolCalls) :
               Unknown(i) /\ ToolCalls[i].arguments.wellformed ) =>
          /\ Len(tool_results) = Len(ToolCalls)
          /\ Len(engine_calls) = 2
          /\ (pc = "Responded" /\ engine_calls[2].outcome = "returned") =>
               /\ reply = engine_calls[2].content
               /\ ~Apologised
               /\ conversation_history = history_before \o Recorded

C26_Witness ==
  /\ agent = "smart"
  /\ pc = "Responded"
  /\ ToolCalls = <<TC_unknown>>
  /\ backend_calls = <<>>
  /\ reply = <<"According to the data: ", "Unknown weather function requested">>

(***************************************************************************)
(* C27.  In GroqWeatherAgent and SmartGroqWeatherAgent the history always  *)
(* has even length and alternates user, assistant from a user Turn on; its *)
(* entries have a role and a content and nothing else (no system message,  *)
(* no tool message, no tool calls); and a turn has made it longer by 0 or  *)
(* by 2, so it never holds more than two Turns per accepted utterance.     *)
(***************************************************************************)
C27_HistoryAlternates ==
  agent \in {"groq", "smart"} =>
     /\ Len(conversation_history) % 2 = 0
     /\ \A i \in 1..Len(conversation_history) :
          /\ DOMAIN conversation_history[i] = {"role", "content"}
          /\ conversation_history[i].role =
               IF i % 2 = 1 THEN "user" ELSE "assistant"
     /\ Len(conversation_history) - Len(history_before) \in {0, 2}
     /\ Len(conversation_history) <= 2 * turns

\* A third turn that met a backend error and was answered, after one turn
\* that was recorded and one that an engine error left unrecorded.
C27_Witness ==
  /\ agent = "groq"
  /\ pc = "Responded"
  /\ turns = 3
  /\ BackendFailed
  /\ ~Apologised
  /\ Len(history_before) = 2
  /\ Len(conversation_history) = 4

(***************************************************************************)
(* C28.  The first engine request of a turn is the agent's system message, *)
(* then the last W Turns of the history as the turn found it (all of it    *)
(* when it has at most W), then one user message for the utterance (in     *)
(* GroqWeatherAgent followed by the weather data, if any).  The history    *)
(* does not hold the utterance yet, so it is the last message only and     *)
(* not part of the window, and the request has at most 12 messages.        *)
(***************************************************************************)
FirstRequest == pc \in {"Completing", "FirstPass"}

C28_FirstRequestShape ==
  (agent \in {"groq", "smart"} /\ FirstRequest) =>
     LET n == Len(messages)
         h == Len(history_before)
         window == SubSeq(history_before, h - (n - 2) + 1, h)
         user_content ==
           IF agent = "groq" /\ weather_data # None
             THEN user_message \o <<"\n\nCurrent weather data:\n">> \o weather_data
             ELSE user_message
     IN  /\ Len(engine_calls) = 1
         /\ n = Min(W, Len(history_before)) + 2
         /\ n <= 12
         /\ messages[1] = Turn("system", IF agent = "groq" THEN groq_system_message
                                                           ELSE smart_system_message)
         /\ SubSeq(messages, 2, n - 1) = window
         /\ messages[n] = Turn("user", user_content)
         /\ conversation_history = history_before
         /\ Cardinality({i \in 1..n : messages[i].role = "user"})
              = Cardinality({i \in 1..Len(window) : window[i].role = "user"}) + 1

\* A full request: the history is longer than the window and the user
\* message carries weather data.
C28_Witness ==
  /\ agent = "groq"
  /\ pc = "Completing"
  /\ Len(history_before) = W + 2
  /\ Len(messages) = 12
  /\ weather_data # None
  /\ messages[12].content # user_message
  /\ messages[2] = history_before[3]

=============================================================================
